---- MODULE Spec2Model ----
(***************************************************************************)
(* Progress tracker and badge engine of learning-lanes:                    *)
(*   src/src/lib/firestore.ts       updateWatchProgress, awardBadge,       *)
(*                                  checkAndAwardBadges, getWatchHistory,  *)
(*                                  getEarnedBadges                        *)
(*   src/src/stores/progressStore.ts  loadProgress, saveWatchProgress,     *)
(*                                  clearNewBadges, clearProgress          *)
(*   src/src/components/BadgeNotification.tsx  ContentModal.saveProgress   *)
(* The two Firestore collections are sets of documents, each carrying its  *)
(* document id; the nanostores atoms are sequences, as the arrays are.     *)
(***************************************************************************)
EXTENDS Integers, Sequences, FiniteSets, TLC

\* ------------------------------------------------------------------ bounds
MaxTime == 1        \* the clock takes the values 0..MaxTime
MaxPos == 2         \* playback positions 0..MaxPos (seconds)
MaxDur == 2         \* durations 0..MaxDur (seconds), 0 = a bad sample

\* --------------------------------------------------------------- constants
CompletionThreshold == 90
FirstWatchThreshold == 1
FiveVideosThreshold == 5
TenVideosThreshold == 10
TwentyFiveVideosThreshold == 25
ExplorerThreshold == 4

\* completedAt?: Date  --  the field is absent
NoTime == -1

Profiles == {"kid"}
\* the item ids in ascending order, the order of a query result
ItemOrder == <<"a", "b", "c">>
\* the item the child watches
Items == {"a"}

Role(profileId) == "child"

\* `${profileId}_${badgeType}` in ascending order, the order of a query result
BadgeOrder == <<"explorer", "first_watch", "five_videos", "lane_master",
                "ten_videos", "twenty_five_videos">>

\* the lanes prop of ContentModal: an empty lane, then the lane of the item
AppLanes == << [id |-> "L0", title |-> "Lane 0", category |-> "Music",
                items |-> <<>>],
               [id |-> "L1", title |-> "Lane 1", category |-> "School",
                items |-> <<"a">>] >>
\* activeContent.laneId: a lane that holds an item
LaneIds ==
    {AppLanes[k].id : k \in {j \in 1..Len(AppLanes) : Len(AppLanes[j].items) > 0}}

VARIABLES
    now,              \* the wall clock read by new Date()
    watchHistoryDocs, \* collection 'watchHistory'
    earnedBadgeDocs,  \* collection 'earnedBadges'
    watchHistory,     \* atom $watchHistory
    earnedBadges,     \* atom $earnedBadges
    newBadges,        \* atom $newBadges
    laneDocs,         \* collection 'lanes'
    itemDocs,         \* the collections 'lanes/{laneId}/items'
    creator,          \* state of the AILaneCreator component
    inflight,         \* the asynchronous calls that have not returned yet
    ret               \* the last call and what it returned

vars == <<now, watchHistoryDocs, earnedBadgeDocs, watchHistory, earnedBadges,
          newBadges, laneDocs, itemDocs, creator, inflight, ret>>

creatorVars == <<laneDocs, itemDocs, creator>>

\* no call is under way
NoCalls == <<>>

\* the component is not mounted
ClosedCreator ==
    [open |-> FALSE, generatedLane |-> <<>>, editedTitle |-> "", error |-> ""]

\* ------------------------------------------------------------ the store
Exists(coll, id) == \E d \in coll : d.id = id
GetDoc(coll, id) == CHOOSE d \in coll : d.id = id
SetDoc(coll, id, data) == {d \in coll : d.id # id} \cup {data}

WatchId(profileId, itemId) == <<profileId, itemId>>
BadgeId(profileId, badgeType) == <<profileId, badgeType>>

\* ------------------------------------------------------ updateWatchProgress
\* Math.round((currentPosition / duration) * 100), both operations in IEEE-754
\* doubles. Math.round takes the nearest integer and sends a tie up. For whole
\* seconds up to 60 the double product is on the same side of every k + 1/2
\* as the exact value 100 * currentPosition / duration, except at the exact
\* ties below, where the quotient rounds down and the product ends just under
\* the tie: (23 / 40) * 100 = 57.49999999999999.
DoubleBelowTie == {<<23, 40>>, <<41, 40>>, <<51, 40>>}

MathRoundPercent(currentPosition, duration) ==
    LET halfUp == (200 * currentPosition + duration) \div (2 * duration)
    IN  IF <<currentPosition, duration>> \in DoubleBelowTie
        THEN halfUp - 1 ELSE halfUp

ProgressPercent(currentPosition, duration) ==
    IF duration > 0 THEN MathRoundPercent(currentPosition, duration) ELSE 0

Completed(progressPercent) == progressPercent >= CompletionThreshold

WasCompleted(existingData) == existingData.completed

\* faulty variant: the earlier completion is not looked at
NewlyCompletedIgnoringBefore(completed, wasCompleted) == completed

NewlyCompletedExisting(completed, wasCompleted) == completed /\ ~wasCompleted

NewlyCompletedNew(completed) == completed

\* the value written to the 'completed' field of an existing document
StoredCompleted(completed, wasCompleted) == completed

\* faulty variant: completedAt is written on every update
CompletedAtAlwaysWritten(existingData, newlyCompleted, t) == t

\* the value of completedAt after the update of an existing document
UpdatedCompletedAt(existingData, newlyCompleted, t) ==
    IF newlyCompleted THEN t ELSE existingData.completedAt

\* faulty variant: the existing document is replaced as a new one would be
\* written
UpdateExistingOverwriting(docs, id, existingData, profileId, laneId, itemId, currentPosition, duration, t) ==
    LET progressPercent == ProgressPercent(currentPosition, duration)
        completed == Completed(progressPercent)
        watchRecord == [id |-> id, profileId |-> profileId, laneId |-> laneId,
                        itemId |-> itemId, lastPosition |-> currentPosition,
                        duration |-> duration,
                        progressPercent |-> progressPercent,
                        completed |-> completed,
                        startedAt |-> t, updatedAt |-> t,
                        completedAt |-> IF completed THEN t ELSE NoTime]
    IN  [docs |-> SetDoc(docs, id, watchRecord), record |-> watchRecord,
         newlyCompleted |-> completed /\ ~WasCompleted(existingData)]

UpdateExisting(docs, id, existingData, profileId, laneId, itemId, currentPosition, duration, t) ==
    LET progressPercent == ProgressPercent(currentPosition, duration)
        completed == Completed(progressPercent)
        newlyCompleted ==
            NewlyCompletedExisting(completed, WasCompleted(existingData))
        stored == [existingData EXCEPT
                     !.lastPosition = currentPosition,
                     !.duration = duration,
                     !.progressPercent = progressPercent,
                     !.completed =
                         StoredCompleted(completed, WasCompleted(existingData)),
                     !.updatedAt = t,
                     !.completedAt =
                         UpdatedCompletedAt(existingData, newlyCompleted, t)]
        record == [id |-> id, profileId |-> profileId, laneId |-> laneId,
                   itemId |-> itemId, lastPosition |-> currentPosition,
                   duration |-> duration, progressPercent |-> progressPercent,
                   completed |-> completed,
                   startedAt |-> existingData.startedAt, updatedAt |-> t,
                   completedAt |-> IF newlyCompleted THEN t
                                   ELSE existingData.completedAt]
    IN  [docs |-> SetDoc(docs, id, stored), record |-> record,
         newlyCompleted |-> newlyCompleted]

CreateNew(docs, id, profileId, laneId, itemId, currentPosition, duration, t) ==
    LET progressPercent == ProgressPercent(currentPosition, duration)
        completed == Completed(progressPercent)
        watchRecord == [id |-> id, profileId |-> profileId, laneId |-> laneId,
                        itemId |-> itemId, lastPosition |-> currentPosition,
                        duration |-> duration,
                        progressPercent |-> progressPercent,
                        completed |-> completed,
                        startedAt |-> t, updatedAt |-> t,
                        completedAt |-> IF completed THEN t ELSE NoTime]
    IN  [docs |-> SetDoc(docs, id, watchRecord), record |-> watchRecord,
         newlyCompleted |-> NewlyCompletedNew(completed)]

UpdateWatchProgress(docs, profileId, laneId, itemId, currentPosition, duration, t) ==
    LET id == WatchId(profileId, itemId)
    IN  IF Exists(docs, id)
        THEN UpdateExisting(docs, id, GetDoc(docs, id), profileId, laneId,
                            itemId, currentPosition, duration, t)
        ELSE CreateNew(docs, id, profileId, laneId, itemId, currentPosition,
                       duration, t)

\* --------------------------------------------------- queries of the store
\* getWatchHistory: the documents of one profile, in document-id order
RECURSIVE HistoryFrom(_, _, _)
HistoryFrom(docs, profileId, k) ==
    IF k > Len(ItemOrder) THEN <<>>
    ELSE LET id == WatchId(profileId, ItemOrder[k])
         IN  (IF Exists(docs, id) THEN <<GetDoc(docs, id)>> ELSE <<>>)
             \o HistoryFrom(docs, profileId, k + 1)

GetWatchHistory(docs, profileId) == HistoryFrom(docs, profileId, 1)

\* getEarnedBadges: the badges of one profile, in document-id order
RECURSIVE BadgesFrom(_, _, _)
BadgesFrom(docs, profileId, k) ==
    IF k > Len(BadgeOrder) THEN <<>>
    ELSE LET id == BadgeId(profileId, BadgeOrder[k])
         IN  (IF Exists(docs, id) THEN <<GetDoc(docs, id)>> ELSE <<>>)
             \o BadgesFrom(docs, profileId, k + 1)

GetEarnedBadges(docs, profileId) == BadgesFrom(docs, profileId, 1)

\* ------------------------------------------------------------- awardBadge
\* faulty variant: the existence check is skipped
NeverEarned(docs, id) == FALSE

\* metadata is <<>> when the argument is omitted, <<m>> otherwise
AlreadyEarned(docs, id) == Exists(docs, id)

\* faulty variant: a badge already earned is returned instead of null
AwardBadgeReturningExisting(docs, profileId, badgeType, metadata, t) ==
    LET id == BadgeId(profileId, badgeType)
        badge == [id |-> id, profileId |-> profileId, badgeType |-> badgeType,
                  earnedAt |-> t, metadata |-> metadata]
    IN  IF Exists(docs, id)
        THEN [docs |-> docs, badge |-> <<GetDoc(docs, id)>>]
        ELSE [docs |-> SetDoc(docs, id, badge), badge |-> <<badge>>]

AwardBadge(docs, profileId, badgeType, metadata, t) ==
    LET id == BadgeId(profileId, badgeType)
        badge == [id |-> id, profileId |-> profileId, badgeType |-> badgeType,
                  earnedAt |-> t, metadata |-> metadata]
    IN  IF AlreadyEarned(docs, id)
        THEN [docs |-> docs, badge |-> <<>>]
        ELSE [docs |-> SetDoc(docs, id, badge), badge |-> <<badge>>]

\* ---------------------------------------------------- checkAndAwardBadges
\* one `if (cond) { badge = await awardBadge(..); if (badge) push }` block;
\* acc carries the collection, the newBadges array and the awardBadge calls,
\* and which awardBadge call rejects (failAt, 0 for none): the rejected call
\* writes nothing, and no block behind it runs (failed)
AwardIf(acc, cond, profileId, badgeType, metadata, t) ==
    IF ~cond \/ acc.failed THEN acc
    ELSE IF acc.awardCalls + 1 = acc.failAt
    THEN [acc EXCEPT !.failed = TRUE, !.awardCalls = acc.awardCalls + 1]
    ELSE LET r == AwardBadge(acc.docs, profileId, badgeType, metadata, t)
         IN  [acc EXCEPT !.docs = r.docs,
                         !.newBadges = acc.newBadges \o r.badge,
                         !.awardCalls = acc.awardCalls + 1]

CompletedRecords(history) == SelectSeq(history, LAMBDA w : w.completed)

TotalCompleted(completedRecords) == Len(completedRecords)

CompletedItemIds(completedRecords) ==
    {completedRecords[k].itemId : k \in 1..Len(completedRecords)}

\* faulty variant: the threshold itself does not count
CountAbove(totalCompleted, threshold) == totalCompleted > threshold

CountReached(totalCompleted, threshold) == totalCompleted >= threshold

\* faulty variant: a lane without items passes the test
LaneAllCompletedOrEmpty(lane, completedItemIds) ==
    \A k \in 1..Len(lane.items) : lane.items[k] \in completedItemIds

\* lane.items.length > 0 && lane.items.every(item => completedItemIds.has(..))
LaneAllCompleted(lane, completedItemIds) ==
    /\ Len(lane.items) > 0
    /\ \A k \in 1..Len(lane.items) : lane.items[k] \in completedItemIds

\* the lanes that pass the test, by position; the loop breaks at the first
FullLanes(lanes, completedItemIds) ==
    {j \in 1..Len(lanes) : LaneAllCompleted(lanes[j], completedItemIds)}

FirstOf(S) == CHOOSE j \in S : \A k \in S : j <= k

\* lanes.find(l => l.id === record.laneId), then categoriesCompleted.add
CategoriesCompleted(completedRecords, lanes) ==
    LET Found(laneId) == {j \in 1..Len(lanes) : lanes[j].id = laneId}
    IN  {lanes[FirstOf(Found(completedRecords[k].laneId))].category :
            k \in {n \in 1..Len(completedRecords) :
                      Found(completedRecords[n].laneId) # {}}}

\* faulty variant: one category fewer is enough
ExplorerReachedEarly(categoriesCompleted) ==
    Cardinality(categoriesCompleted) >= ExplorerThreshold - 1

\* categoriesCompleted.size >= 4
ExplorerReached(categoriesCompleted) ==
    Cardinality(categoriesCompleted) >= ExplorerThreshold

CheckAndAwardBadgesWith(docs, profileId, history, lanes, t, failAt) ==
    LET completedRecords == CompletedRecords(history)
        totalCompleted == TotalCompleted(completedRecords)
        completedItemIds == CompletedItemIds(completedRecords)
        a0 == [docs |-> docs, newBadges |-> <<>>, awardCalls |-> 0,
               failAt |-> failAt, failed |-> FALSE]
        a1 == AwardIf(a0, CountReached(totalCompleted, FirstWatchThreshold),
                      profileId, "first_watch", <<>>, t)
        a2 == AwardIf(a1, CountReached(totalCompleted, FiveVideosThreshold),
                      profileId, "five_videos", <<>>, t)
        a3 == AwardIf(a2, CountReached(totalCompleted, TenVideosThreshold),
                      profileId, "ten_videos", <<>>, t)
        a4 == AwardIf(a3,
                      CountReached(totalCompleted, TwentyFiveVideosThreshold),
                      profileId, "twenty_five_videos", <<>>, t)
        full == FullLanes(lanes, completedItemIds)
        a5 == IF full = {} THEN a4
              ELSE AwardIf(a4, TRUE, profileId, "lane_master",
                           << [laneId |-> lanes[FirstOf(full)].id,
                               laneTitle |-> lanes[FirstOf(full)].title] >>, t)
        a6 == AwardIf(a5,
                      ExplorerReached(CategoriesCompleted(completedRecords,
                                                          lanes)),
                      profileId, "explorer", <<>>, t)
    IN  a6

\* checkAndAwardBadges when every call of the store succeeds
CheckAndAwardBadges(docs, profileId, history, lanes, t) ==
    CheckAndAwardBadgesWith(docs, profileId, history, lanes, t, 0)

\* ------------------------------------------------------- progressStore.ts
\* currentHistory.findIndex(w => w.itemId === itemId), 0 for -1
FindIndex(history, itemId) ==
    LET hits == {k \in 1..Len(history) : history[k].itemId = itemId}
    IN  IF hits = {} THEN 0 ELSE FirstOf(hits)

UpdatedHistory(currentHistory, itemId, record) ==
    LET existingIndex == FindIndex(currentHistory, itemId)
    IN  IF existingIndex > 0
        THEN [currentHistory EXCEPT ![existingIndex] = record]
        ELSE Append(currentHistory, record)

\* faulty variant: the check runs whenever the record is completed
CheckWheneverCompleted(update) == update.record.completed

\* `if (newlyCompleted)` of saveWatchProgress
ShouldCheckBadges(update) == update.newlyCompleted

NoCheck(docs) == [docs |-> docs, newBadges |-> <<>>, awardCalls |-> 0]

\* what a call leaves in ret: the function called and its arguments, the
\* { record, newlyCompleted } that updateWatchProgress resolved to (<<>> when
\* it was not called), whether checkAndAwardBadges ran, the badges returned
\* (<<>> for none or null) and the number of awardBadge calls made
Ret(op, args, update, checkRan, badges, awardCalls) ==
    [op |-> op, args |-> args, update |-> update, checkRan |-> checkRan,
     badges |-> badges, awardCalls |-> awardCalls]

SaveWatchProgress(profileId, laneId, itemId, currentPosition, duration, lanes) ==
    LET u == UpdateWatchProgress(watchHistoryDocs, profileId, laneId, itemId,
                                 currentPosition, duration, now)
        updatedHistory == UpdatedHistory(watchHistory, itemId, u.record)
        c == IF ShouldCheckBadges(u)
             THEN CheckAndAwardBadges(earnedBadgeDocs, profileId,
                                      updatedHistory, lanes, now)
             ELSE NoCheck(earnedBadgeDocs)
    IN  /\ watchHistoryDocs' = u.docs
        /\ watchHistory' = updatedHistory
        /\ earnedBadgeDocs' = c.docs
        /\ earnedBadges' = IF Len(c.newBadges) > 0
                           THEN earnedBadges \o c.newBadges ELSE earnedBadges
        /\ newBadges' = IF Len(c.newBadges) > 0
                        THEN c.newBadges ELSE newBadges
        /\ ret' = Ret("saveWatchProgress",
                      <<profileId, laneId, itemId, currentPosition, duration,
                        lanes>>,
                      << [record |-> u.record,
                          newlyCompleted |-> u.newlyCompleted] >>,
                      ShouldCheckBadges(u), c.newBadges, c.awardCalls)
        /\ UNCHANGED inflight
        /\ UNCHANGED creatorVars
        /\ UNCHANGED now

\* faulty variant: the failure goes on to the caller
RethrowSaveFailure(error) == [thrown |-> TRUE, badges |-> <<>>]

\* catch (error) { console.error(..); return []; }
CatchSaveFailure(error) == [thrown |-> FALSE, badges |-> <<>>]

\* saveWatchProgress when calls of the store may reject: fault.update says
\* whether the getDoc or the write of updateWatchProgress rejects, and
\* fault.failAt which awardBadge call does (0 for none). A rejected write
\* leaves the collection as it was.
SaveWatchProgressWith(profileId, laneId, itemId, currentPosition, duration, lanes, fault) ==
    LET args == <<profileId, laneId, itemId, currentPosition, duration,
                  lanes, fault>>
        u == UpdateWatchProgress(watchHistoryDocs, profileId, laneId, itemId,
                                 currentPosition, duration, now)
        updatedHistory == UpdatedHistory(watchHistory, itemId, u.record)
        c == CheckAndAwardBadgesWith(earnedBadgeDocs, profileId,
                                     updatedHistory, lanes, now, fault.failAt)
        update == << [record |-> u.record,
                      newlyCompleted |-> u.newlyCompleted] >>
        Result(op, upd, checkRan, outcome, awardCalls) ==
            [op |-> op, args |-> args, update |-> upd, checkRan |-> checkRan,
             badges |-> outcome.badges, awardCalls |-> awardCalls,
             thrown |-> outcome.thrown]
    IN  /\ UNCHANGED creatorVars
        /\ UNCHANGED <<now, inflight>>
        /\ IF fault.update # "none"
           THEN /\ ret' = Result("saveWatchProgress", <<>>, FALSE,
                                 CatchSaveFailure(fault.update), 0)
                /\ UNCHANGED <<watchHistoryDocs, earnedBadgeDocs,
                               watchHistory, earnedBadges, newBadges>>
           ELSE /\ watchHistoryDocs' = u.docs
                /\ watchHistory' = updatedHistory
                /\ IF ~ShouldCheckBadges(u)
                   THEN /\ ret' = Result("saveWatchProgress", update, FALSE,
                                         [thrown |-> FALSE, badges |-> <<>>],
                                         0)
                        /\ UNCHANGED <<earnedBadgeDocs, earnedBadges,
                                       newBadges>>
                   ELSE /\ earnedBadgeDocs' = c.docs
                        /\ IF c.failed
                           THEN /\ ret' = Result("saveWatchProgress", update,
                                           TRUE, CatchSaveFailure("awardBadge"),
                                           c.awardCalls)
                                /\ UNCHANGED <<earnedBadges, newBadges>>
                           ELSE /\ ret' = Result("saveWatchProgress", update,
                                           TRUE,
                                           [thrown |-> FALSE,
                                            badges |-> c.newBadges],
                                           c.awardCalls)
                                /\ earnedBadges' =
                                      IF Len(c.newBadges) > 0
                                      THEN earnedBadges \o c.newBadges
                                      ELSE earnedBadges
                                /\ newBadges' =
                                      IF Len(c.newBadges) > 0
                                      THEN c.newBadges ELSE newBadges

\* the exported store function, called with any sample
SaveWatchProgressCall ==
    \E profileId \in Profiles, laneId \in LaneIds, itemId \in Items,
       currentPosition \in 0..MaxPos, duration \in 0..MaxDur :
        SaveWatchProgress(profileId, laneId, itemId, currentPosition,
                          duration, AppLanes)

\* ContentModal.saveProgress: returns early unless a child profile is
\* watching and the duration is known
SaveProgress ==
    \E profileId \in Profiles, laneId \in LaneIds, itemId \in Items,
       pos \in 0..MaxPos, totalDur \in 0..MaxDur :
        IF Role(profileId) # "child" \/ totalDur <= 0
        THEN /\ ret' = Ret("saveProgress",
                           <<profileId, laneId, itemId, pos, totalDur>>,
                           <<>>, FALSE, <<>>, 0)
             /\ UNCHANGED inflight
             /\ UNCHANGED creatorVars
             /\ UNCHANGED <<now, watchHistoryDocs, earnedBadgeDocs,
                            watchHistory, earnedBadges, newBadges>>
        ELSE SaveWatchProgress(profileId, laneId, itemId, pos, totalDur,
                               AppLanes)

LoadProgress ==
    \E profileId \in Profiles :
        /\ watchHistory' = GetWatchHistory(watchHistoryDocs, profileId)
        /\ earnedBadges' = GetEarnedBadges(earnedBadgeDocs, profileId)
        /\ ret' = Ret("loadProgress", <<profileId>>, <<>>, FALSE, <<>>, 0)
        /\ UNCHANGED inflight
        /\ UNCHANGED creatorVars
        /\ UNCHANGED <<now, watchHistoryDocs, earnedBadgeDocs, newBadges>>

ClearNewBadges ==
    /\ newBadges' = <<>>
    /\ ret' = Ret("clearNewBadges", <<>>, <<>>, FALSE, <<>>, 0)
    /\ UNCHANGED inflight
    /\ UNCHANGED creatorVars
    /\ UNCHANGED <<now, watchHistoryDocs, earnedBadgeDocs, watchHistory,
                   earnedBadges>>

ClearProgress ==
    /\ watchHistory' = <<>>
    /\ earnedBadges' = <<>>
    /\ newBadges' = <<>>
    /\ ret' = Ret("clearProgress", <<>>, <<>>, FALSE, <<>>, 0)
    /\ UNCHANGED inflight
    /\ UNCHANGED creatorVars
    /\ UNCHANGED <<now, watchHistoryDocs, earnedBadgeDocs>>

\* time passes between two calls
Tick ==
    /\ now < MaxTime
    /\ now' = now + 1
    /\ UNCHANGED inflight
    /\ UNCHANGED creatorVars
    /\ UNCHANGED <<watchHistoryDocs, earnedBadgeDocs, watchHistory,
                   earnedBadges, newBadges, ret>>

Init ==
    /\ now = 0
    /\ watchHistoryDocs = {}
    /\ earnedBadgeDocs = {}
    /\ watchHistory = <<>>
    /\ earnedBadges = <<>>
    /\ newBadges = <<>>
    /\ laneDocs = <<>>
    /\ itemDocs = <<>>
    /\ creator = ClosedCreator
    /\ inflight = NoCalls
    /\ ret = Ret("init", <<>>, <<>>, FALSE, <<>>, 0)

Next ==
    \/ Tick
    \/ SaveWatchProgressCall
    \/ SaveProgress
    \/ LoadProgress
    \/ ClearNewBadges
    \/ ClearProgress

Spec == Init /\ [][Next]_vars

\* ------------------------------------------- the progress computation alone
\* One updateWatchProgress call with a sample of whole seconds up to
\* SampleMax, on a collection that holds no record of the pair, a record in
\* progress or a completed record.
SampleMax == 40

SeedInProgress == CreateNew({}, WatchId("kid", "a"), "kid", "L1", "a", 0, 1, 0).docs

SeedCompleted == CreateNew({}, WatchId("kid", "a"), "kid", "L1", "a", 1, 1, 0).docs

InitPercent ==
    /\ now = 1
    /\ watchHistoryDocs \in {{}, SeedInProgress, SeedCompleted}
    /\ earnedBadgeDocs = {}
    /\ watchHistory = <<>>
    /\ earnedBadges = <<>>
    /\ newBadges = <<>>
    /\ laneDocs = <<>>
    /\ itemDocs = <<>>
    /\ creator = ClosedCreator
    /\ inflight = NoCalls
    /\ ret = Ret("init", <<>>, <<>>, FALSE, <<>>, 0)

UpdateWatchProgressCall ==
    \E currentPosition \in 0..SampleMax, duration \in 0..SampleMax :
        LET u == UpdateWatchProgress(watchHistoryDocs, "kid", "L1", "a",
                                     currentPosition, duration, now)
        IN  /\ ret.op = "init"
            /\ watchHistoryDocs' = u.docs
            /\ ret' = Ret("updateWatchProgress",
                          <<"kid", "L1", "a", currentPosition, duration>>,
                          << [record |-> u.record,
                              newlyCompleted |-> u.newlyCompleted] >>,
                          FALSE, <<>>, 0)
            /\ UNCHANGED inflight
            /\ UNCHANGED creatorVars
            /\ UNCHANGED <<now, earnedBadgeDocs, watchHistory, earnedBadges,
                           newBadges>>

NextPercent == UpdateWatchProgressCall

SpecPercent == InitPercent /\ [][NextPercent]_vars

\* ------------------------------------------------------- awardBadge alone
\* awardBadge called directly, for two profiles
AwardProfiles == {"kid", "sis"}

AwardInputs ==
    { <<"first_watch", <<>>>>,
      <<"explorer", <<>>>>,
      <<"lane_master", << [laneId |-> "L1", laneTitle |-> "Lane 1"] >> >> }

AwardBadgeCall ==
    \E profileId \in AwardProfiles, in \in AwardInputs :
        LET r == AwardBadge(earnedBadgeDocs, profileId, in[1], in[2], now)
        IN  /\ earnedBadgeDocs' = r.docs
            /\ ret' = Ret("awardBadge", <<profileId, in[1]>>, <<>>, FALSE,
                          r.badge, 0)
            /\ UNCHANGED inflight
            /\ UNCHANGED creatorVars
            /\ UNCHANGED <<now, watchHistoryDocs, watchHistory, earnedBadges,
                           newBadges>>

NextAward ==
    \/ Tick
    \/ AwardBadgeCall

SpecAward == Init /\ [][NextAward]_vars

\* -------------------------------------------------- the badge engine alone
\* checkAndAwardBadges called with a watch history of inProgress records
\* below 90% followed by completed records, over a catalogue of five lanes.
MaxCompleted == 26

\* the history holds either no record below 90% or one in front of the rest
InProgressCounts == {0, 1}

BadgeLanes ==
    << [id |-> "L0", title |-> "Lane 0", category |-> "Music", items |-> <<>>],
       [id |-> "L1", title |-> "Lane 1", category |-> "School", items |-> <<1, 2>>],
       [id |-> "L2", title |-> "Lane 2", category |-> "Music", items |-> <<3>>],
       [id |-> "L3", title |-> "Lane 3", category |-> "Fun", items |-> <<4>>],
       [id |-> "L4", title |-> "Lane 4", category |-> "Creativity", items |-> <<5>>] >>

\* the lane an item was watched in; items above 5 were watched in a lane that
\* is no longer in the catalogue
LaneOfItem(itemId) ==
    IF itemId <= 2 THEN "L1"
    ELSE IF itemId <= 5 THEN BadgeLanes[itemId].id
    ELSE "L9"

HistoryRecord(profileId, itemId, completed) ==
    [id |-> WatchId(profileId, itemId), profileId |-> profileId,
     laneId |-> LaneOfItem(itemId), itemId |-> itemId,
     lastPosition |-> IF completed THEN 2 ELSE 1, duration |-> 2,
     progressPercent |-> IF completed THEN 100 ELSE 50,
     completed |-> completed, startedAt |-> 0, updatedAt |-> 0,
     completedAt |-> IF completed THEN 0 ELSE NoTime]

MakeHistory(profileId, inProgress, completed) ==
    [k \in 1..(inProgress + completed) |->
        HistoryRecord(profileId, k, k > inProgress)]

CheckAndAwardBadgesCall ==
    \E profileId \in Profiles, inProgress \in InProgressCounts,
       completed \in 0..MaxCompleted :
        LET c == CheckAndAwardBadges(earnedBadgeDocs, profileId,
                     MakeHistory(profileId, inProgress, completed),
                     BadgeLanes, now)
        IN  /\ earnedBadgeDocs' = c.docs
            /\ ret' = Ret("checkAndAwardBadges",
                          <<profileId, inProgress, completed>>, <<>>, TRUE,
                          c.newBadges, c.awardCalls)
            /\ UNCHANGED inflight
            /\ UNCHANGED creatorVars
            /\ UNCHANGED <<now, watchHistoryDocs, watchHistory, earnedBadges,
                           newBadges>>

NextBadges ==
    \/ Tick
    \/ CheckAndAwardBadgesCall

SpecBadges == Init /\ [][NextBadges]_vars

\* ------------------------------------------ lanes of two items and of one
\* saveWatchProgress called for the items a and b of lane L1 and the item c
\* of lane L2, with a sample at 50% or at 100%. The lanes argument is the
\* catalogue as the caller holds it: with L1 = [a, b], or with a third item d
\* added to L1, which nobody watches.
LaneItems == {"a", "b", "c"}

LaneSamples == {<<1, 2>>, <<2, 2>>}

LaneCatalogue ==
    << [id |-> "L0", title |-> "Lane 0", category |-> "Music", items |-> <<>>],
       [id |-> "L1", title |-> "Lane 1", category |-> "School", items |-> <<"a", "b">>],
       [id |-> "L2", title |-> "Lane 2", category |-> "Music", items |-> <<"c">>] >>

LaneCatalogueGrown ==
    [LaneCatalogue EXCEPT ![2].items = <<"a", "b", "d">>]

\* activeContent.laneId of an item
ItemLane(itemId) == IF itemId = "c" THEN "L2" ELSE "L1"

LaneSaveCall ==
    \E profileId \in Profiles, itemId \in LaneItems, sample \in LaneSamples,
       lanes \in {LaneCatalogue, LaneCatalogueGrown} :
        SaveWatchProgress(profileId, ItemLane(itemId), itemId, sample[1],
                          sample[2], lanes)

NextLane == LaneSaveCall

SpecLane == Init /\ [][NextLane]_vars

\* the same calls in a session in which the profile is switched and loaded
NextSession ==
    \/ LaneSaveCall
    \/ LoadProgress
    \/ ClearProgress

SpecSession == Init /\ [][NextSession]_vars

\* -------------------------------------------- GeminiProvider.generateJSON
\* The response text is a sequence of pieces:
\*   "ws"     white space (a character of the class \s)
\*   "fence"  three backticks
\*   "json"   the word json
\*   "data"   a JSON value that holds no double quote and no backtick
\*   "quote"  a double quote; quote .. quote is a JSON string
\*   "junk"   text that is no JSON
MaxTextLen == 5

TextTokens == {"ws", "fence", "json", "data", "quote", "junk"}

Texts == UNION {[1..n -> TextTokens] : n \in 0..MaxTextLen}

\* result.response.text() of generateContent, or the call throws
Responses ==
    {[ok |-> TRUE, text |-> text] : text \in Texts}
        \cup {[ok |-> FALSE, error |-> "service error"]}

\* what a call of the generation pipeline leaves in ret
Outcome(op, args, result) == [op |-> op, args |-> args, result |-> result]

RECURSIVE TrimLeft(_)
TrimLeft(text) ==
    IF text # <<>> /\ text[1] = "ws" THEN TrimLeft(Tail(text)) ELSE text

RECURSIVE TrimRight(_)
TrimRight(text) ==
    IF text # <<>> /\ text[Len(text)] = "ws"
    THEN TrimRight(SubSeq(text, 1, Len(text) - 1)) ELSE text

\* JSON.parse: white space around one value; a string runs from a double
\* quote to the next one
JSONParse(text) ==
    LET t == TrimRight(TrimLeft(text))
        isString == /\ Len(t) >= 2
                    /\ t[1] = "quote" /\ t[Len(t)] = "quote"
                    /\ \A k \in 2..(Len(t) - 1) : t[k] # "quote"
    IN  IF t = <<"data">> \/ isString
        THEN [ok |-> TRUE, value |-> t]
        ELSE [ok |-> FALSE, error |-> "SyntaxError"]

\* text.match(/```(?:json)?\s*([\s\S]*?)\s*```/): <<>> for null, else
\* << jsonMatch[1] >>. The match starts at the first fence that has a fence
\* after it and, the capture being lazy, ends at the next fence.
JsonMatch(text) ==
    LET fences == {k \in 1..Len(text) : text[k] = "fence"}
        open == FirstOf(fences)
        close == FirstOf(fences \ {open})
        inner == SubSeq(text, open + 1, close - 1)
        untagged == IF inner # <<>> /\ inner[1] = "json"
                    THEN Tail(inner) ELSE inner
    IN  IF Cardinality(fences) < 2 THEN <<>>
        ELSE << TrimRight(TrimLeft(untagged)) >>

GenerateJSON(response) ==
    IF ~response.ok THEN [ok |-> FALSE, error |-> response.error]
    ELSE LET first == JSONParse(response.text)
             jsonMatch == JsonMatch(response.text)
         IN  IF first.ok THEN first
             ELSE IF jsonMatch # <<>> THEN JSONParse(jsonMatch[1])
             ELSE [ok |-> FALSE, error |-> "Failed to parse AI response as JSON"]

InitParse ==
    /\ now = 0
    /\ watchHistoryDocs = {}
    /\ earnedBadgeDocs = {}
    /\ watchHistory = <<>>
    /\ earnedBadges = <<>>
    /\ newBadges = <<>>
    /\ laneDocs = <<>>
    /\ itemDocs = <<>>
    /\ creator = ClosedCreator
    /\ inflight = NoCalls
    /\ ret \in {Outcome("response", <<response>>, <<>>) : response \in Responses}

GenerateJSONCall ==
    /\ ret.op = "response"
    /\ ret' = Outcome("generateJSON", ret.args, GenerateJSON(ret.args[1]))
    /\ UNCHANGED inflight
    /\ UNCHANGED creatorVars
    /\ UNCHANGED <<now, watchHistoryDocs, earnedBadgeDocs, watchHistory,
                   earnedBadges, newBadges>>

NextParse == GenerateJSONCall

SpecParse == InitParse /\ [][NextParse]_vars

\* ------------------------------------------------- LaneGenerator.generate
\* plan.searchQueries.slice(0, 4)
MaxSearchQueries == 4
\* maxVideos = 8
DefaultMaxVideos == 8

\* The numbers of the ranking response are JSON numbers, whole or not. An
\* index is carried in halves: Unit stands for 1, Unit + 1 for 1.5.
Unit == 2

\* a YouTubeVideoDetails
Video(videoId) == [videoId |-> videoId, title |-> videoId]

\* what ai.generateJSON and youtube.searchWithDetails resolve to or throw
Resolved(value) == [ok |-> TRUE, value |-> value]
Thrown(error) == [ok |-> FALSE, error |-> error]

\* faulty variant: every video of a result is pushed
PushAll(allVideos, videos) == allVideos \o videos

\* for (const video of videos) if (!seenVideoIds.has(video.videoId)) push
RECURSIVE PushUnseen(_, _)
PushUnseen(allVideos, videos) ==
    IF videos = <<>> THEN allVideos
    ELSE LET seenVideoIds == {allVideos[k].videoId : k \in 1..Len(allVideos)}
         IN  PushUnseen(IF videos[1].videoId \in seenVideoIds THEN allVideos
                        ELSE Append(allVideos, videos[1]),
                        Tail(videos))

\* faulty variant: a failed search empties the candidate list
SearchStepForgetting(acc, query, response) ==
    IF response.ok
    THEN [allVideos |-> PushUnseen(acc.allVideos, response.value),
          searchCalls |-> Append(acc.searchCalls, query)]
    ELSE [allVideos |-> <<>>, searchCalls |-> Append(acc.searchCalls, query)]

\* one round of the loop: try { search; push } catch { console.error }
SearchStep(acc, query, response) ==
    IF response.ok
    THEN [allVideos |-> PushUnseen(acc.allVideos, response.value),
          searchCalls |-> Append(acc.searchCalls, query)]
    ELSE [acc EXCEPT !.searchCalls = Append(acc.searchCalls, query)]

\* the loop over the queries; searchResponses[k] answers the k-th query
RECURSIVE SearchLoop(_, _, _, _)
SearchLoop(acc, queries, searchResponses, k) ==
    IF k > Len(queries) THEN acc
    ELSE SearchLoop(SearchStep(acc, queries[k], searchResponses[k]),
                    queries, searchResponses, k + 1)

\* faulty variant: every query of the plan is searched
AllQueries(searchQueries) == searchQueries

\* plan.searchQueries.slice(0, 4)
SliceQueries(searchQueries) ==
    SubSeq(searchQueries, 1,
           IF Len(searchQueries) < MaxSearchQueries
           THEN Len(searchQueries) ELSE MaxSearchQueries)

\* .filter(s => s.index > 0 && s.index <= allVideos.length)
InBounds(selection, allVideos) ==
    selection.index > 0 /\ selection.index <= Unit * Len(allVideos)

\* .slice(0, maxVideos)
SliceItems(selections, maxVideos) ==
    SubSeq(selections, 1,
           IF Len(selections) < maxVideos THEN Len(selections) ELSE maxVideos)

\* allVideos[selection.index - 1] is an element of the array
IsElement(selection, allVideos) ==
    /\ selection.index % Unit = 0
    /\ selection.index \div Unit \in 1..Len(allVideos)

\* the .map callback, for a selection that names an element
SelectedItem(selection, allVideos) ==
    LET video == allVideos[selection.index \div Unit]
    IN  [title |-> video.title, type |-> "youtube_video",
         data |-> [videoId |-> video.videoId, loop |-> FALSE],
         relevanceScore |-> selection.relevanceScore,
         reason |-> selection.reason]

\* faulty variant: an item goes in front of the items of equal score
InsertBeforeEqual(sorted, item) ==
    LET before == SelectSeq(sorted,
                      LAMBDA x : x.relevanceScore > item.relevanceScore)
    IN  before \o <<item>> \o SubSeq(sorted, Len(before) + 1, Len(sorted))

\* the place of an item in a list sorted by (a, b) => b.relevanceScore -
\* a.relevanceScore: behind the items with a score at least as high
InsertByScore(sorted, item) ==
    LET before == SelectSeq(sorted,
                      LAMBDA x : x.relevanceScore >= item.relevanceScore)
    IN  before \o <<item>> \o SubSeq(sorted, Len(before) + 1, Len(sorted))

\* selectedItems.sort(..): Array.prototype.sort is stable
RECURSIVE SortByScore(_, _)
SortByScore(sorted, items) ==
    IF items = <<>> THEN sorted
    ELSE SortByScore(InsertByScore(sorted, items[1]), Tail(items))

\* what generate did and how it ended: the lane it resolved to or the error
\* it threw, the queries searched, and the candidates and maxVideos of the
\* ranking prompt (<<>> when no ranking call was made)
Generated(ok, lane, error, searchCalls, filterPrompt) ==
    [ok |-> ok, lane |-> lane, error |-> error, planCalls |-> 1,
     searchCalls |-> searchCalls, filterPrompt |-> filterPrompt]

\* Step 4 of generate
BuildLane(plan, allVideos, selectedVideos, maxVideos, searchCalls, filterPrompt) ==
    LET kept == SliceItems(SelectSeq(selectedVideos,
                               LAMBDA sel : InBounds(sel, allVideos)),
                           maxVideos)
    IN  IF \E k \in 1..Len(kept) : ~IsElement(kept[k], allVideos)
        THEN Generated(FALSE, <<>>, "TypeError", searchCalls, filterPrompt)
        ELSE Generated(TRUE,
                 [title |-> plan.title, description |-> plan.description,
                  category |-> plan.category,
                  items |-> SortByScore(<<>>,
                                [k \in 1..Len(kept) |->
                                    SelectedItem(kept[k], allVideos)])],
                 "", searchCalls, filterPrompt)

\* Steps 2 to 4 of generate, for the plan the planning call resolved to
SearchAndRank(request, plan, searchResponses, filterResponse) ==
    LET found == SearchLoop([allVideos |-> <<>>, searchCalls |-> <<>>],
                            SliceQueries(plan.searchQueries),
                            searchResponses, 1)
        filterPrompt == << [candidates |-> found.allVideos,
                            maxVideos |-> request.maxVideos] >>
    IN  IF ~filterResponse.ok
        THEN Generated(FALSE, <<>>, filterResponse.error,
                       found.searchCalls, filterPrompt)
        ELSE IF "selectedVideos" \notin DOMAIN filterResponse.value
        THEN Generated(FALSE, <<>>, "TypeError", found.searchCalls,
                       filterPrompt)
        ELSE BuildLane(plan, found.allVideos,
                       filterResponse.value.selectedVideos,
                       request.maxVideos, found.searchCalls, filterPrompt)

\* faulty variant: a failed planning call is replaced by a plan that
\* searches for the prompt itself
GenerateWithFallbackPlan(request, planResponse, searchResponses, filterResponse) ==
    SearchAndRank(request,
                  IF planResponse.ok
                      /\ "searchQueries" \in DOMAIN planResponse.value
                  THEN planResponse.value
                  ELSE [title |-> request.prompt, description |-> "",
                        category |-> "Other",
                        searchQueries |-> <<request.prompt>>],
                  searchResponses, filterResponse)

\* generate: a rejected planning call, or a plan without searchQueries,
\* ends it before Step 2
Generate(request, planResponse, searchResponses, filterResponse) ==
    IF ~planResponse.ok
    THEN Generated(FALSE, <<>>, planResponse.error, <<>>, <<>>)
    ELSE IF "searchQueries" \notin DOMAIN planResponse.value
    THEN Generated(FALSE, <<>>, "TypeError", <<>>, <<>>)
    ELSE SearchAndRank(request, planResponse.value, searchResponses,
                       filterResponse)

\* ------------------------------------------------ POST /api/generate-lane
\* a value of the parsed request body: its typeof and its text
JsString(text) == [type |-> "string", value |-> text]
JsNumber(text) == [type |-> "number", value |-> text]
JsUndefined == [type |-> "undefined", value |-> ""]

\* !value is false
Truthy(value) ==
    /\ value.type # "undefined"
    /\ ~(value.type = "string" /\ value.value = "")
    /\ ~(value.type = "number" /\ value.value = "0")

\* faulty variant: the type of the prompt is not looked at
PromptRejectedWhenFalsy(prompt) == ~Truthy(prompt)

\* if (!prompt || typeof prompt !== 'string')
PromptRejected(prompt) == ~Truthy(prompt) \/ prompt.type # "string"

\* body.maxVideos 0 stands for none; the response and, when generate was
\* called, what it did
POST(body, env, planResponse, searchResponses, filterResponse) ==
    IF PromptRejected(body.prompt)
    THEN [status |-> 400, body |-> [error |-> "Prompt is required"],
          generated |-> <<>>]
    ELSE IF ~env.youtubeApiKey \/ ~env.geminiApiKey
    THEN [status |-> 500,
          body |-> [error |-> "Server configuration error: Missing API keys"],
          generated |-> <<>>]
    ELSE LET g == Generate([prompt |-> body.prompt.value,
                            maxVideos |-> IF body.maxVideos = 0
                                          THEN DefaultMaxVideos
                                          ELSE body.maxVideos],
                           planResponse, searchResponses, filterResponse)
         IN  IF g.ok
             THEN [status |-> 200, body |-> g.lane, generated |-> <<g>>]
             ELSE [status |-> 500, body |-> [error |-> g.error],
                   generated |-> <<g>>]

\* a request that passes the checks of the route
GoodBody == [prompt |-> JsString("dinosaurs"), maxVideos |-> 0]
GoodEnv == [youtubeApiKey |-> TRUE, geminiApiKey |-> TRUE]

\* a planning response with n search queries, the k-th query being k
Plan(n) ==
    [title |-> "Dino Time", description |-> "All about dinosaurs",
     category |-> "Science", searchQueries |-> [k \in 1..n |-> k]]

\* an element of selectedVideos
Selection(index, relevanceScore, reason) ==
    [index |-> index, relevanceScore |-> relevanceScore, reason |-> reason]

\* one request to the route, with the answers the services give to it
PostCall(body, env, planResponse, searchResponses, filterResponse) ==
    /\ ret.op = "init"
    /\ ret' = Outcome("POST",
                      <<body, env, planResponse, searchResponses,
                        filterResponse>>,
                      POST(body, env, planResponse, searchResponses,
                           filterResponse))
    /\ UNCHANGED inflight
    /\ UNCHANGED creatorVars
    /\ UNCHANGED <<now, watchHistoryDocs, earnedBadgeDocs, watchHistory,
                   earnedBadges, newBadges>>

\* --------------------------------------------------- the search step alone
\* A plan of up to MaxQueries queries; each search fails or returns one of
\* three result lists, two of which overlap; the ranking fails or selects candidate 1.
MaxQueries == 5

SearchOutcomes ==
    { Thrown("YouTube API error"),
      Resolved(<<>>),
      Resolved(<<Video("v1"), Video("v2")>>),
      Resolved(<<Video("v2"), Video("v3")>>) }

SearchFilterResponses ==
    { Thrown("service error"),
      Resolved([selectedVideos |-> <<Selection(Unit, 90, "r1")>>]) }

SearchPostCall ==
    /\ ret.op = "init"
    /\ \E n \in 0..MaxQueries :
           \E searchResponses \in [1..n -> SearchOutcomes],
              filterResponse \in SearchFilterResponses :
               PostCall(GoodBody, GoodEnv, Resolved(Plan(n)), searchResponses,
                        filterResponse)

NextSearch == SearchPostCall

SpecSearch == Init /\ [][NextSearch]_vars

\* -------------------------------------------------- the ranking step alone
\* One query whose search returns 0 or 3 candidates; the ranking response
\* is any list of up to MaxSelections selections. An index is carried in
\* halves (Unit stands for 1): 0, 0.5, 1, 2 and 4 are tried. The k-th
\* selection of a response has the k-th reason.
MaxSelections == 3

RankIndexes == {0, 1, Unit, 2 * Unit, 4 * Unit}

RankScores == {50, 90}

Reasons == <<"r1", "r2", "r3", "r4", "r5">>

RankSearchOutcomes ==
    { Resolved(<<>>),
      Resolved(<<Video("v1"), Video("v2"), Video("v3")>>) }

RankResponses ==
    UNION { { [k \in 1..n |-> Selection(index[k], score[k], Reasons[k])] :
                index \in [1..n -> RankIndexes],
                score \in [1..n -> RankScores] } : n \in 0..MaxSelections }

RankBodies == {GoodBody, [prompt |-> JsString("dinosaurs"), maxVideos |-> 2]}

RankPostCall ==
    /\ ret.op = "init"
    /\ \E body \in RankBodies, searchResponse \in RankSearchOutcomes,
          selectedVideos \in RankResponses :
           PostCall(body, GoodEnv, Resolved(Plan(1)), <<searchResponse>>,
                    Resolved([selectedVideos |-> selectedVideos]))

NextRank == RankPostCall

SpecRank == Init /\ [][NextRank]_vars

\* ------------------------------------------------------- the route as a whole
\* Requests with a prompt, with a blank, an empty or no prompt and with a
\* number for a prompt, with and without the API keys; the
\* planning and the ranking call each fail in the service, answer with text
\* that is not JSON, answer with JSON of another shape, or answer well.
RoutePrompts ==
    { JsString("dinosaurs"), JsString(" "), JsString(""), JsUndefined,
      JsNumber("0"), JsNumber("42") }

RouteBodies == {[prompt |-> prompt, maxVideos |-> 0] : prompt \in RoutePrompts}

RouteEnvs ==
    { GoodEnv,
      [youtubeApiKey |-> FALSE, geminiApiKey |-> TRUE],
      [youtubeApiKey |-> TRUE, geminiApiKey |-> FALSE] }

ServiceError == "Gemini API error"
ParseError == "Failed to parse AI response as JSON"

RoutePlanResponses ==
    { Thrown(ServiceError),
      Thrown(ParseError),
      Resolved([title |-> "Dino Time"]),
      Resolved(Plan(0)),
      Resolved(Plan(2)) }

RouteSearchOutcomes ==
    {Thrown("YouTube API error"), Resolved(<<Video("v1")>>)}

RouteFilterResponses ==
    { Thrown(ServiceError),
      Thrown(ParseError),
      Resolved([videos |-> <<>>]),
      Resolved([selectedVideos |-> <<>>]),
      Resolved([selectedVideos |-> <<Selection(Unit, 90, "r1")>>]) }

RoutePostCall ==
    /\ ret.op = "init"
    /\ \E body \in RouteBodies, env \in RouteEnvs,
          planResponse \in RoutePlanResponses,
          searchResponses \in [1..2 -> RouteSearchOutcomes],
          filterResponse \in RouteFilterResponses :
           PostCall(body, env, planResponse, searchResponses, filterResponse)

NextRoute == RoutePostCall

SpecRoute == Init /\ [][NextRoute]_vars

\* ------------------------------------------------------------ AILaneCreator
\* The admin opens the creator, generates a lane, chooses among its items
\* and saves; a successful save closes the creator (onSuccess). The writes
\* of createLane and createItem are taken to succeed. At most MaxLanes
\* lanes are saved.
MaxLanes == 2

CreatorMaxVideos == 6

OpenedCreator == [ClosedCreator EXCEPT !.open = TRUE]

CreatorPrompts == {"", " ", "dinosaurs", " dinosaurs "}

\* prompt.trim(), on the prompts above
Trim(prompt) ==
    IF prompt = " " THEN ""
    ELSE IF prompt = " dinosaurs " THEN "dinosaurs"
    ELSE prompt

CreatorPlanResponses == {Thrown(ServiceError), Resolved(Plan(1))}

CreatorSearchResponses ==
    {<<Resolved(<<Video("v1"), Video("v2")>>)>>}

CreatorFilterResponses ==
    { Resolved([selectedVideos |-> <<>>]),
      Resolved([selectedVideos |-> <<Selection(Unit, 90, "r1")>>]),
      Resolved([selectedVideos |-> <<Selection(2 * Unit, 90, "r1"),
                                     Selection(Unit, 50, "r2")>>]) }

EditedTitles == {"", "Dinosaurs!"}

\* "+ AI Lane" of the lane manager mounts the component
OpenCreator ==
    /\ ~creator.open
    /\ creator' = OpenedCreator
    /\ ret' = Outcome("open", <<>>, <<>>)
    /\ UNCHANGED inflight
    /\ UNCHANGED <<now, watchHistoryDocs, earnedBadgeDocs, watchHistory,
                   earnedBadges, newBadges, laneDocs, itemDocs>>

\* onClose unmounts it
CloseCreator ==
    /\ creator.open
    /\ creator' = ClosedCreator
    /\ ret' = Outcome("onClose", <<>>, <<>>)
    /\ UNCHANGED inflight
    /\ UNCHANGED <<now, watchHistoryDocs, earnedBadgeDocs, watchHistory,
                   earnedBadges, newBadges, laneDocs, itemDocs>>

\* items: data.items.map(item => ({ ...item, selected: true }))
WithSelections(lane) ==
    [lane EXCEPT !.items = [k \in 1..Len(lane.items) |->
        [title |-> lane.items[k].title, type |-> lane.items[k].type,
         data |-> lane.items[k].data,
         relevanceScore |-> lane.items[k].relevanceScore,
         reason |-> lane.items[k].reason, selected |-> TRUE]]]

\* handleGenerate, with the request it sends answered by the route
HandleGenerate ==
    /\ creator.open
    /\ creator.generatedLane = <<>>
    /\ \E prompt \in CreatorPrompts,
          planResponse \in CreatorPlanResponses,
          searchResponses \in CreatorSearchResponses,
          filterResponse \in CreatorFilterResponses :
           LET response == POST([prompt |-> JsString(Trim(prompt)),
                                 maxVideos |-> CreatorMaxVideos],
                                GoodEnv, planResponse, searchResponses,
                                filterResponse)
           IN  /\ creator' =
                     IF Trim(prompt) = ""
                     THEN [creator EXCEPT !.error = "Please enter a prompt"]
                     ELSE IF response.status # 200
                     THEN [creator EXCEPT !.error = response.body.error]
                     ELSE [creator EXCEPT
                              !.error = "",
                              !.generatedLane =
                                  <<WithSelections(response.body)>>,
                              !.editedTitle = response.body.title]
               /\ ret' = Outcome("handleGenerate", <<prompt>>,
                                 IF Trim(prompt) = "" THEN <<>>
                                 ELSE <<response>>)
    /\ UNCHANGED inflight
    /\ UNCHANGED <<now, watchHistoryDocs, earnedBadgeDocs, watchHistory,
                   earnedBadges, newBadges, laneDocs, itemDocs>>

\* what the handlers below do to the items of the generated lane
SetSelected(items, selected) ==
    [k \in 1..Len(items) |-> [items[k] EXCEPT !.selected = selected[k]]]

SetItems(selected) ==
    /\ creator' = [creator EXCEPT !.generatedLane[1].items =
                       SetSelected(creator.generatedLane[1].items, selected)]
    /\ UNCHANGED inflight
    /\ UNCHANGED <<now, watchHistoryDocs, earnedBadgeDocs, watchHistory,
                   earnedBadges, newBadges, laneDocs, itemDocs>>

ToggleItemSelection ==
    /\ creator.open
    /\ creator.generatedLane # <<>>
    /\ \E index \in 1..Len(creator.generatedLane[1].items) :
           /\ SetItems([k \in 1..Len(creator.generatedLane[1].items) |->
                   IF k = index
                   THEN ~creator.generatedLane[1].items[k].selected
                   ELSE creator.generatedLane[1].items[k].selected])
           /\ ret' = Outcome("toggleItemSelection", <<index>>, <<>>)

SelectAll ==
    /\ creator.open
    /\ creator.generatedLane # <<>>
    /\ SetItems([k \in 1..Len(creator.generatedLane[1].items) |-> TRUE])
    /\ ret' = Outcome("selectAll", <<>>, <<>>)

DeselectAll ==
    /\ creator.open
    /\ creator.generatedLane # <<>>
    /\ SetItems([k \in 1..Len(creator.generatedLane[1].items) |-> FALSE])
    /\ ret' = Outcome("deselectAll", <<>>, <<>>)

\* the title input: onChange={(e) => setEditedTitle(e.target.value)}
SetEditedTitle ==
    /\ creator.open
    /\ creator.generatedLane # <<>>
    /\ \E title \in EditedTitles :
           /\ creator' = [creator EXCEPT !.editedTitle = title]
           /\ ret' = Outcome("setEditedTitle", <<title>>, <<>>)
    /\ UNCHANGED inflight
    /\ UNCHANGED <<now, watchHistoryDocs, earnedBadgeDocs, watchHistory,
                   earnedBadges, newBadges, laneDocs, itemDocs>>

StartOver ==
    /\ creator.open
    /\ creator.generatedLane # <<>>
    /\ creator' = [creator EXCEPT !.generatedLane = <<>>, !.error = ""]
    /\ ret' = Outcome("startOver", <<>>, <<>>)
    /\ UNCHANGED inflight
    /\ UNCHANGED <<now, watchHistoryDocs, earnedBadgeDocs, watchHistory,
                   earnedBadges, newBadges, laneDocs, itemDocs>>

\* faulty variant: every generated item is saved
AllItems(items) == items

\* generatedLane.items.filter(item => item.selected)
SelectedItems(items) == SelectSeq(items, LAMBDA item : item.selected)

\* createLane: a fresh id, one document in 'lanes'
CreateLane(docs, lane) ==
    Append(docs, [id |-> Len(docs) + 1, profileId |-> lane.profileId,
                  title |-> lane.title, category |-> lane.category,
                  isActive |-> lane.isActive, sortOrder |-> lane.sortOrder])

\* createItem for each selected item: a fresh id, one document in the
\* items collection of the lane
RECURSIVE CreateItems(_, _, _)
CreateItems(docs, laneId, selectedItems) ==
    IF selectedItems = <<>> THEN docs
    ELSE CreateItems(Append(docs,
                        [laneId |-> laneId, id |-> Len(docs) + 1,
                         title |-> selectedItems[1].title,
                         type |-> selectedItems[1].type,
                         data |-> selectedItems[1].data]),
                     laneId, Tail(selectedItems))

\* handleSave; the handler makes its own check of the selection, also
\* behind a save button that is disabled when nothing is selected
HandleSave ==
    /\ creator.open
    /\ Len(laneDocs) < MaxLanes
    /\ \E profileId \in Profiles :
        IF creator.generatedLane = <<>>
        THEN /\ ret' = Outcome("handleSave", <<profileId, creator>>, <<>>)
             /\ UNCHANGED <<laneDocs, itemDocs, creator>>
        ELSE LET generatedLane == creator.generatedLane[1]
                 selectedItems == SelectedItems(generatedLane.items)
             IN  /\ ret' = Outcome("handleSave", <<profileId, creator>>,
                                   selectedItems)
                 /\ IF Len(selectedItems) = 0
                    THEN /\ creator' = [creator EXCEPT !.error =
                                          "Please select at least one video"]
                         /\ UNCHANGED <<laneDocs, itemDocs>>
                    ELSE /\ laneDocs' = CreateLane(laneDocs,
                              [profileId |-> profileId,
                               title |-> IF creator.editedTitle # ""
                                         THEN creator.editedTitle
                                         ELSE generatedLane.title,
                               category |-> generatedLane.category,
                               isActive |-> TRUE, sortOrder |-> 100])
                         /\ itemDocs' = CreateItems(itemDocs,
                                            Len(laneDocs) + 1, selectedItems)
                         /\ creator' = ClosedCreator
    /\ UNCHANGED inflight
    /\ UNCHANGED <<now, watchHistoryDocs, earnedBadgeDocs, watchHistory,
                   earnedBadges, newBadges>>

NextCreator ==
    \/ OpenCreator
    \/ CloseCreator
    \/ HandleGenerate
    \/ ToggleItemSelection
    \/ SelectAll
    \/ DeselectAll
    \/ SetEditedTitle
    \/ StartOver
    \/ HandleSave

SpecCreator == Init /\ [][NextCreator]_vars

\* ------------------------------------------- requests, direct and from the UI
\* One request sent to the route by any client, and the creator, whose
\* handleGenerate sends its own.
NextRequest ==
    \/ RoutePostCall
    \/ OpenCreator
    \/ CloseCreator
    \/ HandleGenerate
    \/ ToggleItemSelection
    \/ SelectAll
    \/ DeselectAll
    \/ SetEditedTitle
    \/ StartOver
    \/ HandleSave

SpecRequest == Init /\ [][NextRequest]_vars

\* ------------------------------------------- updateWatchProgress, any lane
\* updateWatchProgress called for one item from either of two lanes, with
\* samples below and above the completion threshold, as the clock moves.
FrameLanes == {"L1", "L2"}

FrameSamples == {<<0, 0>>, <<0, 2>>, <<1, 2>>, <<2, 2>>}

FrameUpdateCall ==
    \E profileId \in Profiles, laneId \in FrameLanes, itemId \in Items,
       sample \in FrameSamples :
        LET u == UpdateWatchProgress(watchHistoryDocs, profileId, laneId,
                                     itemId, sample[1], sample[2], now)
        IN  /\ watchHistoryDocs' = u.docs
            /\ ret' = Ret("updateWatchProgress",
                          <<profileId, laneId, itemId, sample[1], sample[2]>>,
                          << [record |-> u.record,
                              newlyCompleted |-> u.newlyCompleted] >>,
                          FALSE, <<>>, 0)
            /\ UNCHANGED inflight
            /\ UNCHANGED creatorVars
            /\ UNCHANGED <<now, earnedBadgeDocs, watchHistory, earnedBadges,
                           newBadges>>

NextFrame ==
    \/ Tick
    \/ FrameUpdateCall

SpecFrame == Init /\ [][NextFrame]_vars

\* ------------------------------------------------ calls of the store reject
\* saveWatchProgress on the items of the lane catalogue, where the read or
\* the write of the progress record, or one of the first MaxFailAt
\* awardBadge calls, may reject.
MaxFailAt == 2

Faults ==
    [update : {"none", "getDoc", "write"}, failAt : {0}]
        \cup [update : {"none"}, failAt : 1..MaxFailAt]

FaultySaveCall ==
    \E profileId \in Profiles, itemId \in LaneItems, sample \in LaneSamples,
       fault \in Faults :
        SaveWatchProgressWith(profileId, ItemLane(itemId), itemId, sample[1],
                              sample[2], LaneCatalogue, fault)

NextFault == FaultySaveCall

SpecFault == Init /\ [][NextFault]_vars

\* ------------------------------------------------------ overlapping calls
\* saveWatchProgress and loadProgress are async functions: a call runs up
\* to its next await, and other calls run while it waits for the store.
\* Up to MaxCalls calls are started from the empty store; each step below
\* is one request carried out by the store together with the code that
\* runs when its answer arrives. No request is rejected here.
MaxCalls == 2

RaceItems == {"a", "c"}

\* a call, before its first request is carried out
NewCall(kind, pc, args) ==
    [kind |-> kind, pc |-> pc, args |-> args, existing |-> <<>>,
     update |-> <<>>, plan |-> <<>>, newBadges |-> <<>>, awardCalls |-> 0,
     loaded |-> <<>>]

\* saveWatchProgress is called: updateWatchProgress runs up to getDoc
StartSave ==
    /\ Len(inflight) < MaxCalls
    /\ \E profileId \in Profiles, itemId \in RaceItems, sample \in LaneSamples :
          inflight' = Append(inflight,
              NewCall("save", "getDoc",
                      <<profileId, ItemLane(itemId), itemId, sample[1],
                        sample[2], LaneCatalogue>>))
    /\ UNCHANGED creatorVars
    /\ UNCHANGED <<now, watchHistoryDocs, earnedBadgeDocs, watchHistory,
                   earnedBadges, newBadges, ret>>

\* loadProgress is called: both queries are sent
StartLoad ==
    /\ Len(inflight) < MaxCalls
    /\ \E profileId \in Profiles :
          inflight' = Append(inflight, NewCall("load", "read", <<profileId>>))
    /\ UNCHANGED creatorVars
    /\ UNCHANGED <<now, watchHistoryDocs, earnedBadgeDocs, watchHistory,
                   earnedBadges, newBadges, ret>>

\* const existing = await getDoc(docRef)
SaveGetDoc ==
    \E k \in 1..Len(inflight) :
        LET c == inflight[k]
            id == WatchId(c.args[1], c.args[3])
        IN  /\ c.pc = "getDoc"
            /\ inflight' = [inflight EXCEPT ![k] = [c EXCEPT
                   !.pc = "write",
                   !.existing = IF Exists(watchHistoryDocs, id)
                                THEN <<GetDoc(watchHistoryDocs, id)>>
                                ELSE <<>>]]
            /\ UNCHANGED creatorVars
            /\ UNCHANGED <<now, watchHistoryDocs, earnedBadgeDocs,
                           watchHistory, earnedBadges, newBadges, ret>>

\* updateDoc(docRef, updates) writes the fields of updates into the
\* document as it is when the write is carried out
UpdateDoc(docs, id, u) ==
    LET current == GetDoc(docs, id)
    IN  SetDoc(docs, id,
               [current EXCEPT
                  !.lastPosition = u.record.lastPosition,
                  !.duration = u.record.duration,
                  !.progressPercent = u.record.progressPercent,
                  !.completed = u.record.completed,
                  !.updatedAt = u.record.updatedAt,
                  !.completedAt = IF u.newlyCompleted THEN u.record.completedAt
                                  ELSE current.completedAt])

\* the end of a saveWatchProgress call, without a check or behind the last
\* awardBadge: the atoms are set and the badges returned
FinishSave(k, c) ==
    /\ inflight' = [inflight EXCEPT ![k] = [c EXCEPT !.pc = "done"]]
    /\ earnedBadges' = IF Len(c.newBadges) > 0
                       THEN earnedBadges \o c.newBadges ELSE earnedBadges
    /\ newBadges' = IF Len(c.newBadges) > 0 THEN c.newBadges ELSE newBadges
    /\ ret' = Ret("saveWatchProgress", c.args, c.update,
                  ShouldCheckBadges(c.update[1]), c.newBadges, c.awardCalls)

\* the call goes on to its next awardBadge, or ends
ContinueSave(k, c) ==
    IF c.plan = <<>> THEN FinishSave(k, c)
    ELSE /\ inflight' = [inflight EXCEPT ![k] = [c EXCEPT !.pc = "awardGet"]]
         /\ UNCHANGED <<earnedBadges, newBadges, ret>>

\* await updateDoc / setDoc of updateWatchProgress, then saveWatchProgress
\* up to the first getDoc of awardBadge: the badges whose conditions hold
\* are the ones checkAndAwardBadges would create in an empty collection
SaveWrite ==
    \E k \in 1..Len(inflight) :
        LET c == inflight[k]
            id == WatchId(c.args[1], c.args[3])
            u == IF c.existing # <<>>
                 THEN UpdateExisting(watchHistoryDocs, id, c.existing[1],
                                     c.args[1], c.args[2], c.args[3],
                                     c.args[4], c.args[5], now)
                 ELSE CreateNew(watchHistoryDocs, id, c.args[1], c.args[2],
                                c.args[3], c.args[4], c.args[5], now)
            updatedHistory == UpdatedHistory(watchHistory, c.args[3], u.record)
            plan == IF ShouldCheckBadges(u)
                    THEN CheckAndAwardBadges({}, c.args[1], updatedHistory,
                                             c.args[6], now).newBadges
                    ELSE <<>>
        IN  /\ c.pc = "write"
            /\ watchHistoryDocs' =
                  IF c.existing # <<>> THEN UpdateDoc(watchHistoryDocs, id, u)
                  ELSE u.docs
            /\ watchHistory' = updatedHistory
            /\ ContinueSave(k, [c EXCEPT
                   !.update = << [record |-> u.record,
                                  newlyCompleted |-> u.newlyCompleted] >>,
                   !.plan = plan])
            /\ UNCHANGED creatorVars
            /\ UNCHANGED <<now, earnedBadgeDocs>>

\* const existing = await getDoc(existingRef) of awardBadge
AwardGet ==
    \E k \in 1..Len(inflight) :
        LET c == inflight[k]
        IN  /\ c.pc = "awardGet"
            /\ IF AlreadyEarned(earnedBadgeDocs, c.plan[1].id)
               THEN ContinueSave(k, [c EXCEPT !.plan = Tail(c.plan),
                                           !.awardCalls = c.awardCalls + 1])
               ELSE /\ inflight' = [inflight EXCEPT ![k] =
                                       [c EXCEPT !.pc = "awardSet"]]
                    /\ UNCHANGED <<earnedBadges, newBadges, ret>>
            /\ UNCHANGED creatorVars
            /\ UNCHANGED <<now, watchHistoryDocs, earnedBadgeDocs,
                           watchHistory>>

\* await setDoc(existingRef, ..) of awardBadge, then newBadges.push(badge)
AwardSet ==
    \E k \in 1..Len(inflight) :
        LET c == inflight[k]
        IN  /\ c.pc = "awardSet"
            /\ earnedBadgeDocs' =
                  SetDoc(earnedBadgeDocs, c.plan[1].id, c.plan[1])
            /\ ContinueSave(k, [c EXCEPT
                   !.plan = Tail(c.plan),
                   !.newBadges = Append(c.newBadges, c.plan[1]),
                   !.awardCalls = c.awardCalls + 1])
            /\ UNCHANGED creatorVars
            /\ UNCHANGED <<now, watchHistoryDocs, watchHistory>>

\* the store answers getWatchHistory and getEarnedBadges
LoadRead ==
    \E k \in 1..Len(inflight) :
        LET c == inflight[k]
        IN  /\ c.pc = "read"
            /\ inflight' = [inflight EXCEPT ![k] = [c EXCEPT
                   !.pc = "set",
                   !.loaded =
                       << [history |-> GetWatchHistory(watchHistoryDocs,
                                                       c.args[1]),
                           badges |-> GetEarnedBadges(earnedBadgeDocs,
                                                      c.args[1])] >>]]
            /\ UNCHANGED creatorVars
            /\ UNCHANGED <<now, watchHistoryDocs, earnedBadgeDocs,
                           watchHistory, earnedBadges, newBadges, ret>>

\* $watchHistory.set(history); $earnedBadges.set(badges)
LoadSet ==
    \E k \in 1..Len(inflight) :
        LET c == inflight[k]
        IN  /\ c.pc = "set"
            /\ inflight' = [inflight EXCEPT ![k] = [c EXCEPT !.pc = "done"]]
            /\ watchHistory' = c.loaded[1].history
            /\ earnedBadges' = c.loaded[1].badges
            /\ ret' = Ret("loadProgress", c.args, <<>>, FALSE, <<>>, 0)
            /\ UNCHANGED creatorVars
            /\ UNCHANGED <<now, watchHistoryDocs, earnedBadgeDocs, newBadges>>

NextRace ==
    \/ StartSave
    \/ StartLoad
    \/ SaveGetDoc
    \/ SaveWrite
    \/ AwardGet
    \/ AwardSet
    \/ LoadRead
    \/ LoadSet

SpecRace == Init /\ [][NextRace]_vars

\* ------------------------------------------------- deleteLane, createItem
\* Lanes and items are created and lanes deleted by calls that overlap.
\* uuidv4 gives an id that no document of the collection has.
DeleteLaneIds == {1, 2}

DeleteItemIds == {1, 2}

\* setDoc(doc(db, 'lanes', id), laneWithId) of createLane
CreateLaneAs(docs, id, lane) ==
    Append(docs, [id |-> id, profileId |-> lane.profileId,
                  title |-> lane.title, category |-> lane.category,
                  isActive |-> lane.isActive, sortOrder |-> lane.sortOrder])

\* setDoc(doc(db, 'lanes', laneId, 'items', id), itemWithId) of createItem
CreateItem(docs, laneId, id, item) ==
    Append(docs, [laneId |-> laneId, id |-> id, title |-> item.title,
                  type |-> item.type, data |-> item.data])

HasLane(docs, laneId) == \E k \in 1..Len(docs) : docs[k].id = laneId

\* the documents of collection(db, 'lanes', laneId, 'items')
ItemsOfLane(docs, laneId) ==
    LET InLane(d) == d.laneId = laneId IN SelectSeq(docs, InLane)

\* the ids of itemsSnapshot.docs
RECURSIVE SnapshotIds(_)
SnapshotIds(docs) ==
    IF docs = <<>> THEN {} ELSE {docs[1].id} \cup SnapshotIds(Tail(docs))

\* batch.delete(itemDoc.ref) for the items of the snapshot
BatchDeleteItems(docs, laneId, ids) ==
    LET Kept(d) == ~(d.laneId = laneId /\ d.id \in ids)
    IN  SelectSeq(docs, Kept)

\* batch.delete(doc(db, 'lanes', laneId))
BatchDeleteLane(docs, laneId) ==
    LET Kept(d) == d.id # laneId IN SelectSeq(docs, Kept)

CreateLaneCall ==
    /\ \E profileId \in Profiles, id \in DeleteLaneIds :
          /\ ~HasLane(laneDocs, id)
          /\ laneDocs' = CreateLaneAs(laneDocs, id,
                [profileId |-> profileId, title |-> "Lane",
                 category |-> "Music", isActive |-> TRUE, sortOrder |-> 100])
          /\ ret' = Outcome("createLane", <<id>>, <<>>)
    /\ UNCHANGED <<itemDocs, creator, inflight>>
    /\ UNCHANGED <<now, watchHistoryDocs, earnedBadgeDocs, watchHistory,
                   earnedBadges, newBadges>>

\* createItem for a lane the admin page shows
CreateItemCall ==
    /\ \E laneId \in DeleteLaneIds, id \in DeleteItemIds :
          /\ HasLane(laneDocs, laneId)
          /\ id \notin SnapshotIds(ItemsOfLane(itemDocs, laneId))
          /\ itemDocs' = CreateItem(itemDocs, laneId, id,
                [title |-> "Video", type |-> "youtube", data |-> "v1"])
          /\ ret' = Outcome("createItem", <<laneId, id>>, <<>>)
    /\ UNCHANGED <<laneDocs, creator, inflight>>
    /\ UNCHANGED <<now, watchHistoryDocs, earnedBadgeDocs, watchHistory,
                   earnedBadges, newBadges>>

\* deleteLane is called for a lane of the page; getDocs is sent
StartDelete ==
    /\ Len(inflight) < MaxCalls
    /\ \E laneId \in DeleteLaneIds :
          /\ HasLane(laneDocs, laneId)
          /\ inflight' = Append(inflight,
                                NewCall("delete", "getDocs", <<laneId>>))
    /\ UNCHANGED creatorVars
    /\ UNCHANGED <<now, watchHistoryDocs, earnedBadgeDocs, watchHistory,
                   earnedBadges, newBadges, ret>>

\* const itemsSnapshot = await getDocs(itemsRef)
DeleteGetDocs ==
    \E k \in 1..Len(inflight) :
        LET c == inflight[k]
        IN  /\ c.pc = "getDocs"
            /\ inflight' = [inflight EXCEPT ![k] = [c EXCEPT
                   !.pc = "commit",
                   !.loaded = << SnapshotIds(ItemsOfLane(itemDocs,
                                                        c.args[1])) >>]]
            /\ UNCHANGED creatorVars
            /\ UNCHANGED <<now, watchHistoryDocs, earnedBadgeDocs,
                           watchHistory, earnedBadges, newBadges, ret>>

\* await batch.commit(): all deletes of the batch are carried out, or the
\* commit rejects and none is
DeleteCommit ==
    \E k \in 1..Len(inflight), ok \in BOOLEAN :
        LET c == inflight[k]
        IN  /\ c.pc = "commit"
            /\ inflight' = [inflight EXCEPT ![k] = [c EXCEPT
                   !.pc = IF ok THEN "done" ELSE "failed"]]
            /\ itemDocs' = IF ok
                           THEN BatchDeleteItems(itemDocs, c.args[1],
                                                 c.loaded[1])
                           ELSE itemDocs
            /\ laneDocs' = IF ok THEN BatchDeleteLane(laneDocs, c.args[1])
                           ELSE laneDocs
            /\ ret' = Outcome("deleteLane", c.args,
                              [thrown |-> ~ok, snapshot |-> c.loaded[1]])
            /\ UNCHANGED creator
            /\ UNCHANGED <<now, watchHistoryDocs, earnedBadgeDocs,
                           watchHistory, earnedBadges, newBadges>>

NextDelete ==
    \/ CreateLaneCall
    \/ CreateItemCall
    \/ StartDelete
    \/ DeleteGetDocs
    \/ DeleteCommit

SpecDelete == Init /\ [][NextDelete]_vars

\* ================================================================ claims
\* a step that is a call of op: every call writes ret and leaves the clock
CallOf(op) == now' = now /\ ret'.op = op

\* the watch documents of the pair (profileId, itemId)
WatchDocsOf(docs, profileId, itemId) ==
    {d \in docs : d.profileId = profileId /\ d.itemId = itemId}

\* C1: a watch record's completion timestamp is set exactly once: from the
\* first sample that completes the record on (completedAt is present from
\* then on), no later call changes completedAt, whatever the samples are.
C1_CompletedAtSetOnce ==
    [][\A d \in watchHistoryDocs :
          d.completedAt # NoTime =>
              \E e \in watchHistoryDocs' :
                  e.id = d.id /\ e.completedAt = d.completedAt]_vars

\* C2: the stored completed flag is monotonic: a record stored with
\* completed = TRUE is stored with completed = TRUE after every later call.
C2_CompletedMonotonic ==
    [][\A d \in watchHistoryDocs :
          d.completed =>
              \E e \in watchHistoryDocs' : e.id = d.id /\ e.completed]_vars

\* C3: updateWatchProgress called with duration = 0 is a no-op: the
\* watchHistory collection is the same after the call as before it.
C3_ZeroDurationNoOp ==
    [][(CallOf("saveWatchProgress") /\ ret'.args[5] = 0)
          => watchHistoryDocs' = watchHistoryDocs]_vars

\* round(num / den), a tie rounded up, in exact arithmetic
RoundHalfUp(num, den) == (2 * num + den) \div (2 * den)

\* C4: for every position and every duration > 0, the record stored and the
\* record returned by updateWatchProgress have
\* progressPercent = round(100 * position / duration), a tie rounded up, and
\* completed = TRUE if and only if that progressPercent is at least 90.
C4_PercentAndCompleted ==
    (ret.op = "updateWatchProgress" /\ ret.args[5] > 0) =>
        LET expected == RoundHalfUp(100 * ret.args[4], ret.args[5])
            r == ret.update[1].record
        IN  /\ r.progressPercent = expected
            /\ r.completed <=> expected >= 90
            /\ \A d \in WatchDocsOf(watchHistoryDocs, ret.args[1], ret.args[3]) :
                  /\ d.progressPercent = expected
                  /\ d.completed <=> expected >= 90

\* C5: updateWatchProgress returns newlyCompleted = TRUE exactly when the
\* sample is at 90% or more and, before the call, the pair had no record or a
\* record with completed = FALSE.
C5_NewlyCompletedOnTransition ==
    [][CallOf("saveWatchProgress") =>
          LET u == ret'.update[1]
              before == WatchDocsOf(watchHistoryDocs, ret'.args[1],
                                    ret'.args[3])
          IN  u.newlyCompleted <=>
                  /\ u.record.progressPercent >= 90
                  /\ \A d \in before : ~d.completed]_vars

\* C5 witness: a record that was started earlier and in progress is completed
\* by the call, which returns newlyCompleted = TRUE
C5_Witness ==
    /\ ret.op = "saveWatchProgress"
    /\ ret.update[1].newlyCompleted
    /\ ret.update[1].record.startedAt < ret.update[1].record.completedAt
    /\ ret.update[1].record.completedAt = now

\* C6: a second call with the arguments of the call before it leaves the
\* stored record with the same lastPosition, duration, progressPercent,
\* completed, startedAt and completedAt, and returns newlyCompleted = FALSE.
C6_SameSampleTwice ==
    [][(/\ ret.op = "saveWatchProgress"
        /\ CallOf("saveWatchProgress")
        /\ ret'.args = ret.args)
          => /\ ~ret'.update[1].newlyCompleted
             /\ \A d \in WatchDocsOf(watchHistoryDocs, ret.args[1], ret.args[3]) :
                  \E e \in watchHistoryDocs' :
                      /\ e.id = d.id
                      /\ e.lastPosition = d.lastPosition
                      /\ e.duration = d.duration
                      /\ e.progressPercent = d.progressPercent
                      /\ e.completed = d.completed
                      /\ e.startedAt = d.startedAt
                      /\ e.completedAt = d.completedAt
             /\ Cardinality(WatchDocsOf(watchHistoryDocs', ret.args[1], ret.args[3])) = 1]_vars

\* C6 witness: a completing sample was stored at an earlier time and the
\* same call has been made again, later
C6_Witness ==
    /\ ret.op = "saveWatchProgress"
    /\ ~ret.update[1].newlyCompleted
    /\ ret.update[1].record.completed
    /\ ret.update[1].record.updatedAt > ret.update[1].record.completedAt
    /\ ret.update[1].record.startedAt = ret.update[1].record.completedAt

\* C7: saveWatchProgress runs checkAndAwardBadges if and only if its
\* updateWatchProgress call returned newlyCompleted = TRUE; otherwise it
\* makes no awardBadge call, writes no badge and returns the empty list.
C7_BadgeCheckOnlyOnTransition ==
    [][CallOf("saveWatchProgress") =>
          /\ ret'.checkRan <=> ret'.update[1].newlyCompleted
          /\ ~ret'.update[1].newlyCompleted =>
                /\ ret'.awardCalls = 0
                /\ ret'.badges = <<>>
                /\ UNCHANGED <<earnedBadgeDocs, earnedBadges, newBadges>>]_vars

\* C7 witness: a sample at 90% or more for a record that was already
\* completed: no transition, no badge check
C7_Witness ==
    /\ ret.op = "saveWatchProgress"
    /\ ret.update[1].record.completed
    /\ ~ret.update[1].newlyCompleted
    /\ ~ret.checkRan
    /\ earnedBadgeDocs # {}

\* the badge documents of the pair (profileId, badgeType)
BadgeDocsOf(docs, profileId, badgeType) ==
    {d \in docs : d.profileId = profileId /\ d.badgeType = badgeType}

\* C8: an awardBadge call for a pair that has no badge stores one document
\* and returns it; a call for a pair that has a badge returns null and
\* leaves the collection, earnedAt and metadata included, as it was; after
\* either call the pair has exactly one document.
C8_AwardBadgeTwice ==
    [][CallOf("awardBadge") =>
          LET before == BadgeDocsOf(earnedBadgeDocs, ret'.args[1], ret'.args[2])
              after == BadgeDocsOf(earnedBadgeDocs', ret'.args[1], ret'.args[2])
          IN  /\ Cardinality(after) = 1
              /\ IF before = {}
                 THEN /\ Len(ret'.badges) = 1
                      /\ after = {ret'.badges[1]}
                      /\ ret'.badges[1].earnedAt = now
                 ELSE /\ ret'.badges = <<>>
                      /\ earnedBadgeDocs' = earnedBadgeDocs]_vars

\* C8 witness: the second call, made after the clock moved on, returned null
\* and the badge of the first call is still stored with its earnedAt
C8_Witness ==
    /\ ret.op = "awardBadge"
    /\ ret.badges = <<>>
    /\ \E d \in BadgeDocsOf(earnedBadgeDocs, ret.args[1], ret.args[2]) :
          d.earnedAt < now

\* C9: after every checkAndAwardBadges call the collection holds at most one
\* badge per (profile, badge kind), and the call returns exactly the badges
\* it created: the documents that are stored after it and were not before.
C9_NoDuplicateOnlyNew ==
    [][CallOf("checkAndAwardBadges") =>
          LET returned == {ret'.badges[j] : j \in 1..Len(ret'.badges)}
          IN  /\ \A d, e \in earnedBadgeDocs' :
                    (d.profileId = e.profileId /\ d.badgeType = e.badgeType)
                        => d = e
              /\ returned = earnedBadgeDocs' \ earnedBadgeDocs
              /\ Cardinality(returned) = Len(ret'.badges)]_vars

\* C9 witness: a later evaluation created and returned new badges while
\* badges of an earlier evaluation were stored
C9_Witness ==
    /\ ret.op = "checkAndAwardBadges"
    /\ Len(ret.badges) >= 2
    /\ \A j \in 1..Len(ret.badges) : ret.badges[j].earnedAt = now
    /\ \E d \in earnedBadgeDocs : d.earnedAt < now

\* C10: for first_watch, five_videos, ten_videos and twenty_five_videos with
\* thresholds 1, 5, 10 and 25: a checkAndAwardBadges call over a history with
\* at least that many completed records ends with the badge stored, and a
\* call over a history with fewer completed records does not create it, the
\* in-progress records of the history notwithstanding.
C10_CountBadges ==
    [][CallOf("checkAndAwardBadges") =>
          \A cb \in {<<"first_watch", 1>>, <<"five_videos", 5>>,
                     <<"ten_videos", 10>>, <<"twenty_five_videos", 25>>} :
              LET before == BadgeDocsOf(earnedBadgeDocs, ret'.args[1], cb[1])
                  after == BadgeDocsOf(earnedBadgeDocs', ret'.args[1], cb[1])
              IN  /\ ret'.args[3] >= cb[2] => after # {}
                  /\ ret'.args[3] < cb[2] => after = before]_vars

\* C10 witness: the history holds an in-progress record and exactly 25
\* completed ones, and the call created twenty_five_videos
C10_Witness ==
    /\ ret.op = "checkAndAwardBadges"
    /\ ret.args[2] >= 1
    /\ ret.args[3] = 25
    /\ \E j \in 1..Len(ret.badges) : ret.badges[j].badgeType = "twenty_five_videos"

SpanOfHistory(inProgress, completed) ==
    {BadgeLanes[j].category :
        j \in {n \in 1..Len(BadgeLanes) :
                  \E itemId \in (inProgress + 1)..(inProgress + completed) :
                      LaneOfItem(itemId) = BadgeLanes[n].id}}

C13_EvaluatesStoredHistory ==
    [][(CallOf("saveWatchProgress") /\ ret'.checkRan) =>
          LET evaluated == {watchHistory'[k] : k \in 1..Len(watchHistory')}
              stored == {d \in watchHistoryDocs' : d.profileId = ret'.args[1]}
          IN  /\ evaluated = stored
              /\ \E w \in evaluated :
                    w.itemId = ret'.args[3] /\ w.completed]_vars

\* a JSON value, with white space around it
IsData(text) ==
    \E i, j \in 1..Len(text) :
        /\ i <= j
        /\ \A k \in 1..(i - 1) : text[k] = "ws"
        /\ \A k \in (j + 1)..Len(text) : text[k] = "ws"
        /\ \/ i = j /\ text[i] = "data"
           \/ /\ i < j /\ text[i] = "quote" /\ text[j] = "quote"
              /\ \A k \in (i + 1)..(j - 1) : text[k] # "quote"

\* a fenced code block, with or without the word json after the opening
\* fence, that holds a JSON value; white space may surround the block
IsFencedData(text) ==
    \E i, j \in 1..Len(text) :
        /\ i < j /\ text[i] = "fence" /\ text[j] = "fence"
        /\ \A k \in 1..(i - 1) : text[k] = "ws"
        /\ \A k \in (j + 1)..Len(text) : text[k] = "ws"
        /\ \/ IsData(SubSeq(text, i + 1, j - 1))
           \/ text[i + 1] = "json" /\ IsData(SubSeq(text, i + 2, j - 1))

\* C20: generateJSON succeeds when the response text is a JSON value and
\* when it is a JSON value wrapped in a fenced code block; it fails when the
\* text is no JSON value and either has no fenced block or the content of
\* its first fenced block is no JSON value.
C20_ParsesPlainAndFenced ==
    (ret.op = "generateJSON" /\ ret.args[1].ok) =>
        LET text == ret.args[1].text
            fences == {k \in 1..Len(text) : text[k] = "fence"}
            first == CHOOSE i \in fences : \A k \in fences : i <= k
            second == CHOOSE j \in fences \ {first} :
                          \A k \in fences \ {first} : j <= k
            content == SubSeq(text, first + 1, second - 1)
            contentParses ==
                \/ IsData(content)
                \/ content # <<>> /\ content[1] = "json" /\ IsData(Tail(content))
        IN  /\ IsData(text) => ret.result.ok
            /\ IsFencedData(text) => ret.result.ok
            /\ (/\ ~IsData(text)
                /\ Cardinality(fences) < 2 \/ ~contentParses)
                   => ~ret.result.ok

\* the number of search calls of a plan: its first four queries at most
Issued(searchQueries) ==
    IF Len(searchQueries) < 4 THEN Len(searchQueries) ELSE 4

\* the media ids of the results of the queries 1..last, in query order
RECURSIVE FlatIds(_, _)
FlatIds(searchResponses, last) ==
    IF last = 0 THEN <<>>
    ELSE FlatIds(searchResponses, last - 1) \o
         (IF searchResponses[last].ok
          THEN [k \in 1..Len(searchResponses[last].value) |->
                   searchResponses[last].value[k].videoId]
          ELSE <<>>)

FirstAt(seq, x) ==
    CHOOSE i \in 1..Len(seq) : seq[i] = x /\ \A j \in 1..(i - 1) : seq[j] # x

\* C14: the candidate list that generate hands to the ranking call holds
\* each media id that occurs in a result of the (up to 4) queries exactly
\* once, in the order of the first occurrence of the ids across the queries.
C14_CandidatesDeduplicated ==
    (ret.op = "POST" /\ ret.result.generated # <<>>
        /\ ret.result.generated[1].filterPrompt # <<>>) =>
        LET candidates == ret.result.generated[1].filterPrompt[1].candidates
            ids == [k \in 1..Len(candidates) |-> candidates[k].videoId]
            flat == FlatIds(ret.args[4], Issued(ret.args[3].value.searchQueries))
        IN  /\ {ids[k] : k \in 1..Len(ids)} = {flat[k] : k \in 1..Len(flat)}
            /\ \A i, j \in 1..Len(ids) : i < j =>
                  /\ ids[i] # ids[j]
                  /\ FirstAt(flat, ids[i]) < FirstAt(flat, ids[j])

\* C14 witness: five queries planned; the first two results overlap in v2,
\* and the candidates are v1, v2, v3
C14_Witness ==
    /\ ret.op = "POST"
    /\ Len(ret.args[3].value.searchQueries) = 5
    /\ ret.args[4][1] = Resolved(<<Video("v1"), Video("v2")>>)
    /\ ret.args[4][2] = Resolved(<<Video("v2"), Video("v3")>>)
    /\ ret.result.generated[1].filterPrompt[1].candidates
          = <<Video("v1"), Video("v2"), Video("v3")>>

\* C16: whichever search calls fail, generate searches every one of the
\* first four queries of the plan, keeps every candidate of the searches
\* that succeeded, makes the ranking call, and resolves when the ranking
\* call does, also when every search failed.
C16_SearchFailuresSkipped ==
    (ret.op = "POST" /\ ret.result.generated # <<>> /\ ret.args[3].ok
        /\ "searchQueries" \in DOMAIN ret.args[3].value) =>
        LET g == ret.result.generated[1]
            searchQueries == ret.args[3].value.searchQueries
            issued == Issued(searchQueries)
        IN  /\ g.searchCalls = SubSeq(searchQueries, 1, issued)
            /\ g.filterPrompt # <<>>
            /\ \A q \in 1..issued : ret.args[4][q].ok =>
                  \A k \in 1..Len(ret.args[4][q].value) :
                      \E c \in 1..Len(g.filterPrompt[1].candidates) :
                          g.filterPrompt[1].candidates[c].videoId
                              = ret.args[4][q].value[k].videoId
            /\ (ret.args[5].ok /\ ret.args[5].value.selectedVideos
                                    = <<Selection(Unit, 90, "r1")>>)
                  => g.ok /\ ret.result.status = 200

\* C16 witness: the first and the third search failed, the second and the
\* fourth returned videos, and the lane came back with an item
C16_Witness ==
    /\ ret.op = "POST"
    /\ Len(ret.args[4]) >= 4
    /\ ~ret.args[4][1].ok /\ ~ret.args[4][3].ok
    /\ ret.args[4][2] = Resolved(<<Video("v2"), Video("v3")>>)
    /\ ret.args[4][4] = Resolved(<<Video("v1"), Video("v2")>>)
    /\ ret.result.status = 200
    /\ Len(ret.result.body.items) = 1
    /\ Len(ret.result.generated[1].filterPrompt[1].candidates) = 3

\* a selection whose index is outside [1, N], N candidates
OutsideRange(selection, n) ==
    selection.index < Unit \/ selection.index > Unit * n

\* C15: whatever the ranking response selects, generate raises no error,
\* no selection whose index is outside [1, N] gives an item, and every item
\* returned is the candidate at the index, inside [1, N], of a selection.
C15_OutOfRangeDropped ==
    (ret.op = "POST" /\ ret.result.generated # <<>>
        /\ ret.result.generated[1].filterPrompt # <<>>
        /\ ret.args[5].ok /\ "selectedVideos" \in DOMAIN ret.args[5].value) =>
        LET g == ret.result.generated[1]
            candidates == g.filterPrompt[1].candidates
            n == Len(candidates)
            selectedVideos == ret.args[5].value.selectedVideos
        IN  /\ g.ok
            /\ ret.result.status = 200
            /\ \A k \in 1..Len(selectedVideos) :
                  OutsideRange(selectedVideos[k], n) =>
                      \A i \in 1..Len(g.lane.items) :
                          g.lane.items[i].reason # selectedVideos[k].reason
            /\ \A i \in 1..Len(g.lane.items) :
                  \E k \in 1..Len(selectedVideos) :
                      /\ ~OutsideRange(selectedVideos[k], n)
                      /\ selectedVideos[k].index % Unit = 0
                      /\ g.lane.items[i].reason = selectedVideos[k].reason
                      /\ g.lane.items[i].data.videoId
                            = candidates[selectedVideos[k].index \div Unit].videoId

\* the place of an item in the selection list of the ranking response
SelectionOrder(item, selectedVideos) ==
    CHOOSE k \in 1..Len(selectedVideos) : selectedVideos[k].reason = item.reason

\* C18: the items generate returns are in descending order of
\* relevanceScore, and items of equal relevanceScore are in the order of
\* their selections in the ranking response.
C18_SortedByScoreStable ==
    (ret.op = "POST" /\ ret.result.status = 200) =>
        LET items == ret.result.body.items
            selectedVideos == ret.args[5].value.selectedVideos
        IN  \A i, j \in 1..Len(items) : i < j =>
              /\ items[i].relevanceScore >= items[j].relevanceScore
              /\ items[i].relevanceScore = items[j].relevanceScore =>
                    SelectionOrder(items[i], selectedVideos)
                        < SelectionOrder(items[j], selectedVideos)

\* C18 witness: selections scored 50, 90, 50 come back second, first, third
C18_Witness ==
    /\ ret.op = "POST"
    /\ ret.result.status = 200
    /\ Len(ret.result.body.items) = 3
    /\ [k \in 1..3 |-> ret.args[5].value.selectedVideos[k].relevanceScore]
          = <<50, 90, 50>>
    /\ [k \in 1..3 |-> ret.result.body.items[k].reason] = <<"r2", "r1", "r3">>

\* the planning call, or the ranking call, of a request failed: it was
\* rejected, or it resolved to a value of another shape
PlanningFailed(planResponse) ==
    ~planResponse.ok \/ "searchQueries" \notin DOMAIN planResponse.value

RankingFailed(filterResponse) ==
    ~filterResponse.ok \/ "selectedVideos" \notin DOMAIN filterResponse.value

\* C17: when generate is called and its planning call or its ranking call
\* fails, generate fails, the route answers 500 with a body that holds one
\* error message and nothing of a lane; after a failed planning call there
\* is no search call and no ranking call.
C17_PlanOrRankFailureFatal ==
    (ret.op = "POST" /\ ret.result.generated # <<>>) =>
        LET g == ret.result.generated[1]
            failed == PlanningFailed(ret.args[3]) \/ RankingFailed(ret.args[5])
        IN  /\ failed =>
                  /\ ~g.ok
                  /\ g.lane = <<>>
                  /\ ret.result.status = 500
                  /\ DOMAIN ret.result.body = {"error"}
                  /\ ret.result.body.error = g.error
                  /\ g.error # ""
            /\ PlanningFailed(ret.args[3]) =>
                  /\ g.searchCalls = <<>>
                  /\ g.filterPrompt = <<>>
                  /\ g.planCalls = 1
                  /\ ~ret.args[3].ok => g.error = ret.args[3].error
            /\ (~PlanningFailed(ret.args[3]) /\ ~ret.args[5].ok) =>
                  g.error = ret.args[5].error

\* C17 witness: the planning call answered with text that is not JSON,
\* although the searches and the ranking call would have succeeded
C17_Witness ==
    /\ ret.op = "POST"
    /\ ret.args[3] = Thrown(ParseError)
    /\ ret.args[4][1] = Resolved(<<Video("v1")>>)
    /\ ret.args[5] = Resolved([selectedVideos |-> <<Selection(Unit, 90, "r1")>>])
    /\ ret.result = [status |-> 500, body |-> [error |-> ParseError],
                     generated |-> <<Generated(FALSE, <<>>, ParseError,
                                               <<>>, <<>>)>>]

\* title, type and data of the items of a list
ItemContents(items) ==
    [k \in 1..Len(items) |->
        [title |-> items[k].title, type |-> items[k].type,
         data |-> items[k].data]]

NoneInRange(selectedVideos, n) ==
    \A k \in 1..Len(selectedVideos) : OutsideRange(selectedVideos[k], n)

\* C21: when the ranking call resolves and no selection has an index inside
\* [1, N] (the list is empty, every index is out of range, or there is no
\* candidate), generate resolves to the planned title, description and
\* category with an empty item list.
C21_EmptyLaneWhenNoneSurvive ==
    (ret.op = "POST" /\ ret.result.generated # <<>>
        /\ ret.result.generated[1].filterPrompt # <<>>
        /\ ret.args[5].ok /\ "selectedVideos" \in DOMAIN ret.args[5].value
        /\ NoneInRange(ret.args[5].value.selectedVideos,
               Len(ret.result.generated[1].filterPrompt[1].candidates))) =>
        /\ ret.result.status = 200
        /\ ret.result.body =
              [title |-> ret.args[3].value.title,
               description |-> ret.args[3].value.description,
               category |-> ret.args[3].value.category,
               items |-> <<>>]

\* C25: generate searches the first four queries of the plan at most, in
\* the order of the plan; a query behind the fourth is never searched.
C25_AtMostFourSearches ==
    (ret.op = "POST" /\ ret.result.generated # <<>>) =>
        LET searchCalls == ret.result.generated[1].searchCalls
        IN  /\ Len(searchCalls) <= 4
            /\ (ret.args[3].ok /\ "searchQueries" \in DOMAIN ret.args[3].value)
                  => /\ \A k \in 1..Len(searchCalls) :
                           searchCalls[k] = ret.args[3].value.searchQueries[k]
                     /\ \A k \in 5..Len(ret.args[3].value.searchQueries) :
                           \A c \in 1..Len(searchCalls) :
                               searchCalls[c]
                                   # ret.args[3].value.searchQueries[k]

\* C25 witness: a plan of five queries, four of them searched
C25_Witness ==
    /\ ret.op = "POST"
    /\ ret.args[3].value.searchQueries = <<1, 2, 3, 4, 5>>
    /\ ret.result.generated[1].searchCalls = <<1, 2, 3, 4>>

\* C30: generate returns at most maxVideos items (8 for a request without
\* maxVideos), and no two of them have the same videoId.
C30_AtMostMaxVideosDistinct ==
    (ret.op = "POST" /\ ret.result.status = 200) =>
        LET items == ret.result.body.items
        IN  /\ Len(items) <= (IF ret.args[1].maxVideos = 0 THEN 8
                               ELSE ret.args[1].maxVideos)
            /\ \A i, j \in 1..Len(items) :
                  i # j => items[i].data.videoId # items[j].data.videoId

\* C26: an updateWatchProgress call on an existing record leaves the
\* stored startedAt, profileId, laneId and itemId as they were and the
\* document with the same fields; completedAt changes only when the call
\* is a completion transition.
C26_UpdateKeepsIdentity ==
    [][ CallOf("updateWatchProgress") =>
          \A d \in watchHistoryDocs :
              \E e \in watchHistoryDocs' :
                  /\ e.id = d.id
                  /\ DOMAIN e = DOMAIN d
                  /\ e.startedAt = d.startedAt
                  /\ e.profileId = d.profileId
                  /\ e.laneId = d.laneId
                  /\ e.itemId = d.itemId
                  /\ e.completedAt # d.completedAt =>
                        /\ d.id = WatchId(ret'.args[1], ret'.args[3])
                        /\ ret'.update[1].newlyCompleted
      ]_vars

\* C26 witness: a record started at time 0 from lane L1 was updated at
\* time 1 by a call that names lane L2
C26_Witness ==
    /\ ret.op = "updateWatchProgress"
    /\ ret.args[2] = "L2"
    /\ \E d \in watchHistoryDocs :
          /\ d.laneId = "L1"
          /\ d.startedAt = 0
          /\ d.updatedAt = 1
          /\ d.lastPosition = ret.args[4]

\* C22: the route answers a request whose prompt is missing, empty or not
\* a string with 400 "Prompt is required" and does not call generate, so
\* that no planning, search or ranking call is made; handleGenerate with a
\* prompt that is empty after trimming sends no request and shows an error.
C22_PromptValidatedFirst ==
    /\ (ret.op = "POST"
          /\ (ret.args[1].prompt.type # "string"
                 \/ ret.args[1].prompt.value = "")) =>
          /\ ret.result.status = 400
          /\ ret.result.body = [error |-> "Prompt is required"]
          /\ ret.result.generated = <<>>
    /\ (ret.op = "handleGenerate" /\ ret.args[1] \in {"", " "}) =>
          /\ ret.result = <<>>
          /\ creator.error = "Please enter a prompt"
          /\ creator.generatedLane = <<>>

\* C22 witness: the prompt is the number 42, the keys are there and every
\* service would have answered
C22_Witness ==
    /\ ret.op = "POST"
    /\ ret.args[1].prompt = JsNumber("42")
    /\ ret.args[2] = GoodEnv
    /\ ret.args[3] = Resolved(Plan(2))
    /\ ret.result.status = 400

\* C23: saveWatchProgress returns to its caller whatever rejects; when the
\* read or the write of the progress record rejects it returns no badge
\* and leaves $watchHistory, $earnedBadges and $newBadges as they were.
C23_SaveNeverThrows ==
    [][ CallOf("saveWatchProgress") =>
          /\ ~ret'.thrown
          /\ ret'.args[7].update # "none" =>
                /\ ret'.badges = <<>>
                /\ watchHistory' = watchHistory
                /\ earnedBadges' = earnedBadges
                /\ newBadges' = newBadges
      ]_vars

\* C23 witness: with a completed record in $watchHistory, a later write of
\* a completing sample was rejected
C23_Witness ==
    /\ ret.op = "saveWatchProgress"
    /\ ret.args[7].update = "write"
    /\ ret.args[4] = 2
    /\ ret.args[3] = "b"
    /\ Len(watchHistory) = 1
    /\ watchHistory[1].completed
    /\ earnedBadges # <<>>

\* C29: every badge document that a saveWatchProgress call creates is in
\* $earnedBadges, in $newBadges and in the value the call returns when the
\* call ends, also when a later awardBadge call of the evaluation rejects.
C29_CreatedBadgesReported ==
    [][ CallOf("saveWatchProgress") =>
          \A d \in earnedBadgeDocs' \ earnedBadgeDocs :
              /\ \E k \in 1..Len(earnedBadges') : earnedBadges'[k] = d
              /\ \E k \in 1..Len(newBadges') : newBadges'[k] = d
              /\ \E k \in 1..Len(ret'.badges) : ret'.badges[k] = d
      ]_vars

\* C27: of two updateWatchProgress calls for the same pair that both read
\* the record before either writes, both with a sample of 90% or more and
\* no completed record before them, exactly one returns newlyCompleted.
C27_OneCompletionPerRace ==
    \A i, j \in 1..Len(inflight) :
        (/\ i < j
         /\ inflight[i].kind = "save" /\ inflight[j].kind = "save"
         /\ inflight[i].update # <<>> /\ inflight[j].update # <<>>
         /\ inflight[i].args[1] = inflight[j].args[1]
         /\ inflight[i].args[3] = inflight[j].args[3]
         /\ inflight[i].existing = <<>> /\ inflight[j].existing = <<>>
         /\ inflight[i].update[1].record.completed
         /\ inflight[j].update[1].record.completed) =>
            inflight[i].update[1].newlyCompleted
                # inflight[j].update[1].newlyCompleted

\* C28: $earnedBadges never holds two entries of one badge type.
C28_OneEntryPerBadgeType ==
    \A i, j \in 1..Len(earnedBadges) :
        i # j => earnedBadges[i].badgeType # earnedBadges[j].badgeType

\* C24: when deleteLane(laneId) completes, the lane document and every item
\* document of the lane are gone, also when a createItem for the lane was
\* carried out during the call; when the batch fails, the lane and all of
\* its items remain.
C24_DeleteLaneLeavesNothing ==
    [][CallOf("deleteLane") =>
          IF ret'.result.thrown
          THEN laneDocs' = laneDocs /\ itemDocs' = itemDocs
          ELSE /\ ~HasLane(laneDocs', ret'.args[1])
               /\ ItemsOfLane(itemDocs', ret'.args[1]) = <<>>]_vars

====
